---- MODULE Spec2Model ----
(***************************************************************************)
(* K-MAD central layer: the nine-phase pipeline of CentralController and   *)
(* the scoring arbitration of ClaimArbiter                                 *)
(* (src/src/utils/central_layer_claim_arbiter.py).                         *)
(*                                                                         *)
(* Conventions                                                             *)
(*  - a Claim is a record; confidence is kept in hundredths (90 = 0.90)    *)
(*    and a score in hundredths of a point (6500 = 65.0), so that          *)
(*    confidence * 50 stays an integer;                                    *)
(*  - a Python dict is a function whose DOMAIN is its key set; None is the *)
(*    record NoneValue;                                                    *)
(*  - the two Japanese reason strings of _final_approval are written in    *)
(*    romaji because the module text is ASCII.                             *)
(***************************************************************************)
EXTENDS Integers, Sequences, FiniteSets, TLC

\* ------------------------------------------------------------------------
\* Bounds of the model
\* ------------------------------------------------------------------------
\* longest claim list handed to ClaimArbiter.arbitrate
MaxClaims == 3
\* longest claim list one producer call returns
MaxProduced == 2

\* ------------------------------------------------------------------------
\* ClaimType and Claim
\* ------------------------------------------------------------------------
\* the members of the enum ClaimType, by member name
ClaimType ==
    { "TASK_INSTANCE", "TARGET_SLOT_ID", "PLACEMENT_PROPOSAL",
      "CAPACITY_CHECK_RESULT", "REMAINING_CAPACITY", "CAN_FIT",
      "CONSISTENCY_CHECK_RESULT", "VALIDATION_ERRORS",
      "ALTERNATIVE_SLOTS", "REPLACEMENT_PROPOSAL",
      "TEMPLATE_OPERATION", "SLOT_OPERATION", "COMPLETION_STATUS" }

\* ClaimType.<member>.value
ClaimTypeValue(t) ==
    CASE t = "TASK_INSTANCE"            -> "task_instance"
      [] t = "TARGET_SLOT_ID"           -> "target_slot_id"
      [] t = "PLACEMENT_PROPOSAL"       -> "placement_proposal"
      [] t = "CAPACITY_CHECK_RESULT"    -> "capacity_check_result"
      [] t = "REMAINING_CAPACITY"       -> "remaining_capacity"
      [] t = "CAN_FIT"                  -> "can_fit"
      [] t = "CONSISTENCY_CHECK_RESULT" -> "consistency_check_result"
      [] t = "VALIDATION_ERRORS"        -> "validation_errors"
      [] t = "ALTERNATIVE_SLOTS"        -> "alternative_slots"
      [] t = "REPLACEMENT_PROPOSAL"     -> "replacement_proposal"
      [] t = "TEMPLATE_OPERATION"       -> "template_operation"
      [] t = "SLOT_OPERATION"           -> "slot_operation"
      [] t = "COMPLETION_STATUS"        -> "completion_status"

\* the dataclass Claim (metadata is never read by the code modelled here)
Claim(t, h, v, conf, dd, rm) ==
    [ claim_type |-> t, handler_name |-> h, value |-> v, confidence |-> conf,
      evidence |-> [ domain_dictionary_match |-> dd, rule_match |-> rm ] ]

\* ------------------------------------------------------------------------
\* ClaimArbiter
\* ------------------------------------------------------------------------
calculate_score_bonus_swapped(claim) ==
    claim.confidence * 50
    + (IF claim.evidence.domain_dictionary_match THEN 2000 ELSE 0)
    + (IF claim.evidence.rule_match THEN 3000 ELSE 0)

calculate_score_confidence_subtracted(claim) ==
    (IF claim.evidence.domain_dictionary_match THEN 3000 ELSE 0)
    + (IF claim.evidence.rule_match THEN 2000 ELSE 0)
    - claim.confidence * 50

\* ClaimArbiter._calculate_score, in hundredths of a point
calculate_score(claim) ==
    claim.confidence * 50
    + (IF claim.evidence.domain_dictionary_match THEN 3000 ELSE 0)
    + (IF claim.evidence.rule_match THEN 2000 ELSE 0)

\* ClaimArbiter._validate_capability: config is the capabilities table,
\* handler name -> can_claim list; a handler absent from it allows nothing
validate_capability(claim, config) ==
    LET allowed_claim_types ==
            IF claim.handler_name \in DOMAIN config
            THEN config[claim.handler_name] ELSE {}
    IN  ClaimTypeValue(claim.claim_type) \in allowed_claim_types

claim_type_to_field_name_collide(claim_type) ==
    CASE claim_type = "CAN_FIT" -> "target_slot_id"
      [] claim_type \in ClaimType \ {"CAN_FIT"} -> ClaimTypeValue(claim_type)
      [] OTHER -> "UNKNOWN"

\* ClaimArbiter._claim_type_to_field_name
claim_type_to_field_name(claim_type) ==
    CASE claim_type = "TASK_INSTANCE"            -> "task_instance"
      [] claim_type = "TARGET_SLOT_ID"           -> "target_slot_id"
      [] claim_type = "PLACEMENT_PROPOSAL"       -> "placement_proposal"
      [] claim_type = "CAPACITY_CHECK_RESULT"    -> "capacity_check_result"
      [] claim_type = "REMAINING_CAPACITY"       -> "remaining_capacity"
      [] claim_type = "CAN_FIT"                  -> "can_fit"
      [] claim_type = "CONSISTENCY_CHECK_RESULT" -> "consistency_check_result"
      [] claim_type = "VALIDATION_ERRORS"        -> "validation_errors"
      [] claim_type = "ALTERNATIVE_SLOTS"        -> "alternative_slots"
      [] claim_type = "REPLACEMENT_PROPOSAL"     -> "replacement_proposal"
      [] claim_type = "TEMPLATE_OPERATION"       -> "template_operation"
      [] claim_type = "SLOT_OPERATION"           -> "slot_operation"
      [] claim_type = "COMPLETION_STATUS"        -> "completion_status"
      [] OTHER                                   -> "UNKNOWN"

\* Step 1 of arbitrate: the keys of grouped_claims in insertion order, i.e.
\* the claim types in the order of their first occurrence in claims
RECURSIVE group_keys(_)
group_keys(claims) ==
    IF claims = <<>> THEN <<>>
    ELSE LET front == group_keys(SubSeq(claims, 1, Len(claims) - 1))
             t     == claims[Len(claims)].claim_type
         IN  IF \E i \in 1..Len(front) : front[i] = t
             THEN front ELSE Append(front, t)

\* Step 1 of arbitrate: grouped_claims[claim_type], every claim of the type
\* in input order (the authorized and the unauthorized ones alike)
grouped_claims(claims, claim_type) ==
    SelectSeq(claims, LAMBDA c : c.claim_type = claim_type)

\* Step 2 of arbitrate: validated_claims; the list is built and never read
validated_claims(claims, config) ==
    SelectSeq(claims, LAMBDA c : validate_capability(c, config))

RECURSIVE max_by_score_last(_)
max_by_score_last(claim_list) ==
    IF Len(claim_list) = 1 THEN claim_list[1]
    ELSE LET best == max_by_score_last(SubSeq(claim_list, 1, Len(claim_list) - 1))
             c    == claim_list[Len(claim_list)]
         IN  IF calculate_score(c) >= calculate_score(best) THEN c ELSE best

\* max(claim_list, key=_calculate_score): Python's max keeps the first of
\* the maximal elements (a later element replaces it only when greater)
RECURSIVE max_by_score(_)
max_by_score(claim_list) ==
    IF Len(claim_list) = 1 THEN claim_list[1]
    ELSE LET best == max_by_score(SubSeq(claim_list, 1, Len(claim_list) - 1))
             c    == claim_list[Len(claim_list)]
         IN  IF calculate_score(c) > calculate_score(best) THEN c ELSE best

\* Step 3 of arbitrate: best_claim of one group
best_claim(claims, claim_type) ==
    max_by_score(grouped_claims(claims, claim_type))

\* Step 3 of arbitrate: the loop over grouped_claims.items(), each round
\* assigning final_fields[field_name] = best_claim.value (a later round
\* overwrites an earlier one that used the same field name)
RECURSIVE assign_fields(_, _)
assign_fields(claims, keys) ==
    IF keys = <<>> THEN <<>>
    ELSE LET front      == assign_fields(claims, SubSeq(keys, 1, Len(keys) - 1))
             claim_type == keys[Len(keys)]
             field_name == claim_type_to_field_name(claim_type)
             rest       == [f \in (DOMAIN front) \ {field_name} |-> front[f]]
         IN  (field_name :> best_claim(claims, claim_type).value) @@ rest

\* ClaimArbiter.arbitrate: the returned final_fields (config is self.config)
arbitrate(claims, config) ==
    assign_fields(claims, group_keys(claims))

\* ------------------------------------------------------------------------
\* CentralController: values
\* ------------------------------------------------------------------------
\* Python's None
NoneValue == [ is_none |-> TRUE ]

\* names under which a producer is registered in the model; the first two
\* occur in trigger_map, the third is the replacement producer of Phase 6
HandlerNames ==
    { "TaskPlacementProposer", "TaskTemplateManager", "AutoReplacementProposer" }

\* names under which a validator is registered in the model
ValidatorNames == { "CapacityValidator", "ConsistencyValidator", "AuditValidator" }

\* commands: a dict with an action, or a dict without the key "action"
Commands ==
    { [ action |-> a, payload |-> 1 ] :
        a \in { "place", "create_template", "undo" } }
    \cup { [ payload |-> 1 ] }

\* capabilities tables: the can_claim lists that the comments of ClaimType
\* give for each department, and a table without any department
DefaultCapabilities ==
    ( "TaskPlacementProposer" :>
        { "task_instance", "target_slot_id", "placement_proposal" } )
    @@ ( "AutoReplacementProposer" :>
        { "alternative_slots", "replacement_proposal" } )
    @@ ( "TaskTemplateManager" :> { "template_operation" } )
    @@ ( "CapacityValidator" :>
        { "capacity_check_result", "remaining_capacity", "can_fit" } )

Configs == { DefaultCapabilities, <<>> }

\* claim types that the producers of the model assert
ProducedTypes == { "TARGET_SLOT_ID", "ALTERNATIVE_SLOTS" }

\* the claim lists handler.process may return for the producer registered
\* as name: at most MaxProduced claims, the i-th with payload base + i
ProducerOutputs(name, base) ==
    UNION { { [ i \in 1..n |-> Claim(ts[i], name, base + i, 90, FALSE, FALSE) ] :
                ts \in [ 1..n -> ProducedTypes ] } : n \in 0..MaxProduced }

\* the dicts validator.validate may return: passed, failed, or a dict
\* without the key "passed"
Outcomes == { [ passed |-> TRUE ], [ passed |-> FALSE ], [ warnings |-> 0 ] }

\* reason strings of _final_approval (kensho shippai = validation failed,
\* shokumu bunsho ihan = separation-of-duties violation)
REASON_VALIDATION == "kensho_shippai"
REASON_CAPABILITY == "shokumu_bunsho_ihan"

\* ------------------------------------------------------------------------
\* State
\* ------------------------------------------------------------------------
VARIABLES
    config,             \* self.config["capabilities"]
    handlers,           \* keys of self.handlers
    validators,         \* keys of self.validators
    pc,                 \* position of the process call in progress
    command,            \* argument of process
    triggered_handlers, \* local of process
    all_claims,         \* local of process
    validation_results, \* local of process
    evaluation,         \* local of process
    approval,           \* local of process
    execution_result,   \* local of process
    envelope,           \* value returned by process
    handler_calls,      \* history: producer name -> process calls of the run
    produced,           \* history: the list each invoked producer returned
    validated,          \* history: one entry per _invoke_validators call
    evaluations,        \* history: the value of each _evaluate_validations call
    repl_calls,         \* history: arguments of each replacement process call
    repl_returned,      \* history: value of each _invoke_auto_replacement call
    exec_calls,         \* history: the claims of each _execute call
    arb_claims,         \* argument of a direct ClaimArbiter.arbitrate call
    final_fields,       \* value returned by that call
    config_file,        \* governance_rules.json: its content, or None if absent
    controller,         \* "unbuilt", "built", or "raised" when __init__ failed
    score_args,         \* the inputs of two _calculate_score calls
    score_out,          \* the values those two calls returned
    gate_file,          \* the file at the gate's config_path, None if absent
    gate,               \* "unbuilt", "built", or "exited" when __init__ exited
    gate_config,        \* GovernanceGate.config
    gate_results,       \* GovernanceGate.results
    gate_pc,            \* position of the gate inside execute_all_layers
    all_passed,         \* local of execute_all_layers, read once it is assigned
    gate_returned,      \* value of the last execute_all_layers call that returned
    snapshots,          \* history: run and outcome of each _trigger_snapshot call
    gate_runs,          \* history: number of execute_all_layers calls so far
    caller,             \* "main" when main drives the gate, "api" otherwise
    exited,             \* the interpreter has exited
    exit_status,        \* its exit status, read once exited
    threads,            \* the locals of each of two concurrent process calls
    executions,         \* history: number of _execute calls made so far
    now,                \* the clock that time.time() reads, in ticks
    store,              \* the .jsonl files of snapshot_dir: id -> content
    saved,              \* history: the metadata each save_snapshot returned
    last_cleanup,       \* history: input, time and output of the last cleanup
    advances,           \* history: number of clock advances so far
    save_log,           \* history: id -> the file written and the project then
    project,            \* the files under project_root: path -> bytes
    linesep,            \* os.linesep of the platform
    restore_pc,         \* position of the restore_snapshot call in progress
    restore_id,         \* argument of restore_snapshot
    restore_gzip,       \* local payload_gzip of restore_snapshot
    restore_files,      \* local files of restore_snapshot
    restore_returned,   \* value of the last restore_snapshot call
    restore_events,     \* history: prompt, backup and writes of the call
    restore_start,      \* history: project, store and save_log when it began
    edits,              \* history: number of edits of project files so far
    tampers             \* history: number of changes made to stored files

registry == << config, handlers, validators, config_file, controller >>
locals == << command, triggered_handlers, all_claims, validation_results,
             evaluation, approval, execution_result, envelope >>
history == << handler_calls, produced, validated, evaluations, repl_calls,
              repl_returned, exec_calls >>
arbvars == << arb_claims, final_fields >>
scorevars == << score_args, score_out >>
gatevars == << gate_file, gate, gate_config, gate_results, gate_pc, all_passed,
               gate_returned, snapshots, gate_runs, caller, exited, exit_status >>
concvars == << threads, executions >>
snapvars == << now, store, saved, last_cleanup, advances, save_log >>
restorevars == << project, linesep, restore_pc, restore_id, restore_gzip,
                  restore_files, restore_returned, restore_events,
                  restore_start, edits, tampers >>
extvars == << scorevars, gatevars, concvars, snapvars, restorevars >>
vars == << registry, pc, locals, history, arbvars, extvars >>

\* ------------------------------------------------------------------------
\* CentralController: the phases as functions
\* ------------------------------------------------------------------------
\* command.get("action"): the empty sequence stands for None
command_get_action(cmd) ==
    IF "action" \in DOMAIN cmd THEN << cmd.action >> ELSE <<>>

\* CentralController._detect_triggers: trigger_map.get(action, [])
detect_triggers(action) ==
    IF action = <<>> THEN <<>>
    ELSE CASE action[1] = "place"           -> << "TaskPlacementProposer" >>
           [] action[1] = "create_template" -> << "TaskTemplateManager" >>
           [] action[1] = "create_slot"     -> << "TimeSlotManager" >>
           [] action[1] = "complete"        -> << "TaskCompletionHandler" >>
           [] action[1] = "list"            -> << "DisplayHandler" >>
           [] OTHER                         -> <<>>

\* CentralController._check_capability: every handler is let through
check_capability(handler, data) == TRUE

\* dict.get("passed", True) on the dict a validator returned
get_passed(outcome) ==
    IF "passed" \in DOMAIN outcome THEN outcome.passed ELSE TRUE

\* _evaluate_validations raises AttributeError when an entry of
\* validation_results is None: results always holds both keys, so
\* .get(key, {}) returns the stored None and None.get(...) fails
evaluate_raises(results) ==
    results.capacity = NoneValue \/ results.consistency = NoneValue

\* CentralController._evaluate_validations, when it returns
evaluate_validations(results) ==
    LET capacity_ok    == get_passed(results.capacity)
        consistency_ok == get_passed(results.consistency)
    IN  [ capacity_ok    |-> capacity_ok,
          consistency_ok |-> consistency_ok,
          all_ok         |-> capacity_ok /\ consistency_ok ]

\* CentralController._check_capability_violations: the check is a TODO,
\* the list of violations it returns is always empty
check_capability_violations(claims) == <<>>

final_approval_reasons_swapped(claims, eval) ==
    IF ~eval.all_ok
    THEN [ approved |-> FALSE, reason |-> REASON_CAPABILITY, details |-> eval ]
    ELSE IF check_capability_violations(claims) # <<>>
    THEN [ approved |-> FALSE, reason |-> REASON_VALIDATION,
           violations |-> check_capability_violations(claims) ]
    ELSE [ approved |-> TRUE, approved_claims |-> claims ]

\* CentralController._final_approval
final_approval(claims, eval) ==
    IF ~eval.all_ok
    THEN [ approved |-> FALSE, reason |-> REASON_VALIDATION, details |-> eval ]
    ELSE IF check_capability_violations(claims) # <<>>
    THEN [ approved |-> FALSE, reason |-> REASON_CAPABILITY,
           violations |-> check_capability_violations(claims) ]
    ELSE [ approved |-> TRUE, approved_claims |-> claims ]

\* CentralController._execute: the value returned (the writes are a TODO)
execute(claims, cmd) ==
    [ executed |-> TRUE, claims_processed |-> Len(claims) ]

\* CentralController._format_result (message: "processing completed")
format_result(result) ==
    [ success |-> TRUE, result |-> result, message |-> "shori_kanryo" ]

\* ------------------------------------------------------------------------
\* Initial state: a controller right after __init__, no process call yet
\* ------------------------------------------------------------------------
NoCalls == [ n \in HandlerNames |-> 0 ]

FreshLocals ==
    /\ triggered_handlers = <<>>
    /\ all_claims = <<>>
    /\ validation_results = NoneValue
    /\ evaluation = NoneValue
    /\ approval = NoneValue
    /\ execution_result = NoneValue
    /\ envelope = NoneValue
    /\ handler_calls = NoCalls
    /\ produced = <<>>
    /\ validated = <<>>
    /\ evaluations = <<>>
    /\ repl_calls = <<>>
    /\ repl_returned = <<>>
    /\ exec_calls = <<>>

\* the inputs of _calculate_score before any call
NoScores ==
    /\ score_args = NoneValue
    /\ score_out = NoneValue

\* ------------------------------------------------------------------------
\* GovernanceGate: values and functions
\* ------------------------------------------------------------------------
\* the number of execute_all_layers calls made on one gate object
MaxGateRuns == 2

\* keys of the layer sections of governance_rules.json
GateLayers == { "layer1", "layer2", "layer3", "layer4" }

\* a layer section: {"enabled": true} or {"enabled": false}
LayerDicts == { [ enabled |-> TRUE ], [ enabled |-> FALSE ] }

\* governance_rules.json as a dict: any of the layer sections may be absent
GateConfigs == UNION { [ present -> LayerDicts ] : present \in SUBSET GateLayers }

\* governance_rules.json holding a JSON value that is not an object
NotADict == [ is_list |-> TRUE ]

\* every layer section present and enabled
AllEnabled == [ layer \in GateLayers |-> [ enabled |-> TRUE ] ]

\* what the environment lets the archival call do: save, fail to import
\* snapshot_system, or raise another Exception
SnapshotOutcomes == { "saved", "ImportError", "Exception" }

\* GovernanceGate._load_config: the file does not exist, sys.exit(1)
gate_load_config_exits(file) == file = NoneValue

\* GovernanceGate._load_config: json.load(f)
gate_load_config(file) == file

\* self.config.get(...) on a value that is not a dict raises AttributeError
config_get_raises(cfg) == cfg = NotADict

\* self.config.get(layer, {}).get("enabled", False)
layer_enabled(cfg, layer) ==
    IF layer \in DOMAIN cfg
    THEN IF "enabled" \in DOMAIN cfg[layer] THEN cfg[layer].enabled ELSE FALSE
    ELSE FALSE

\* the violations list of a layer: created empty, nothing is appended to it
layer_violations == <<>>

\* the ValidationResult of a layer (execution_time left out): skipped when
\* the layer is not enabled, otherwise passed = len(violations) == 0
ValidationResult(cfg, layer, title) ==
    IF ~layer_enabled(cfg, layer)
    THEN [ layer |-> title, passed |-> TRUE, violations |-> <<>>,
           warnings |-> << "skipped" >> ]
    ELSE [ layer |-> title, passed |-> Len(layer_violations) = 0,
           violations |-> layer_violations, warnings |-> <<>> ]

\* GovernanceGate.run_layer1_static_analysis
run_layer1_static_analysis(cfg) ==
    ValidationResult(cfg, "layer1", "Layer 1: Static Analysis")

\* GovernanceGate.run_layer2_flow_validation
run_layer2_flow_validation(cfg) ==
    ValidationResult(cfg, "layer2", "Layer 2: Flow Validation")

\* GovernanceGate.run_layer3_domain_inspection
run_layer3_domain_inspection(cfg) ==
    ValidationResult(cfg, "layer3", "Layer 3: Domain Inspection")

\* GovernanceGate.run_layer4_architecture_guard
run_layer4_architecture_guard(cfg) ==
    ValidationResult(cfg, "layer4", "Layer 4: Architecture Guard")

run_layer_out_of_order(n, cfg) ==
    CASE n = 1 -> run_layer2_flow_validation(cfg)
      [] n = 2 -> run_layer1_static_analysis(cfg)
      [] n = 3 -> run_layer3_domain_inspection(cfg)
      [] n = 4 -> run_layer4_architecture_guard(cfg)

\* the layer that execute_all_layers runs in its n-th place
run_layer(n, cfg) ==
    CASE n = 1 -> run_layer1_static_analysis(cfg)
      [] n = 2 -> run_layer2_flow_validation(cfg)
      [] n = 3 -> run_layer3_domain_inspection(cfg)
      [] n = 4 -> run_layer4_architecture_guard(cfg)

trigger_snapshot_import_error_only(outcome) ==
    outcome \in { "saved", "ImportError" }

\* GovernanceGate._trigger_snapshot returns (TRUE) or raises (FALSE):
\* except ImportError and except Exception both print and go on
trigger_snapshot_returns(outcome) ==
    outcome \in { "saved", "ImportError", "Exception" }

\* no GovernanceGate yet, its file absent
NoGate ==
    /\ gate = "unbuilt"
    /\ gate_config = NoneValue
    /\ gate_results = <<>>
    /\ gate_pc = "idle"
    /\ all_passed = FALSE
    /\ gate_returned = FALSE
    /\ snapshots = <<>>
    /\ gate_runs = 0
    /\ exited = FALSE
    /\ exit_status = 0

\* ------------------------------------------------------------------------
\* Concurrent process calls: values
\* ------------------------------------------------------------------------
\* the threads that call process on one controller
Runs == { 1, 2 }

\* the locals of a process call that has not started; validated_at is
\* history, the number of _execute calls made before its last validation
IdleThread ==
    [ pc |-> "idle", command |-> NoneValue, triggered_handlers |-> <<>>,
      all_claims |-> <<>>, validation_results |-> NoneValue,
      evaluation |-> NoneValue, rounds |-> 0, approval |-> NoneValue,
      execution_result |-> NoneValue, envelope |-> NoneValue,
      validated_at |-> 0 ]

\* no thread has called process
NoThreads ==
    /\ threads = [ r \in Runs |-> IdleThread ]
    /\ executions = 0

\* ------------------------------------------------------------------------
\* SnapshotSystem: values and functions
\* ------------------------------------------------------------------------
\* the number of save_snapshot calls and of clock advances in a behaviour
MaxSaves == 3
MaxAdvances == 3

\* clock ticks per second: timestamps are finer than the ids made of them
TicksPerSecond == 2

\* SnapshotSystem.RETENTION_DAYS
RETENTION_DAYS == 7

\* RETENTION_DAYS * 24 * 60 * 60 seconds, in ticks
RetentionTicks == RETENTION_DAYS * 24 * 60 * 60 * TicksPerSecond

\* the time that passes between two calls: a tick, a day, the retention
ClockAdvances == { 1, 24 * 60 * 60 * TicksPerSecond, RetentionTicks }

\* reasons given to save_snapshot, as character sequences
Reasons == { << "g", "p" >>, << "a", " ", "b" >>, << "a", "/", "b" >> }

\* reason.replace(" ", "_").replace("/", "_")
safe_reason(reason) ==
    [ i \in DOMAIN reason |-> IF reason[i] \in { " ", "/" } THEN "_" ELSE reason[i] ]

\* SnapshotSystem._generate_snapshot_id: the timestamp formatted to the
\* second, then the safe reason
generate_snapshot_id(timestamp, reason) ==
    << timestamp \div TicksPerSecond, safe_reason(reason) >>

\* paths of the project files, all with a target extension
Paths == { "a.py", "b.md" }

\* a path under which there is no file (not the bytes of any file)
Absent == << "ENOENT" >>

\* the bytes of a file, CR and LF standing for the two newline bytes
Contents == { << "x", "LF" >>, << "x", "CR", "LF" >> }

\* os.linesep: "\n", or "\r\n" on Windows
LineSeps == { << "LF" >>, << "CR", "LF" >> }

\* open(path, 'r').read(): text mode with universal newlines turns "\r\n"
\* and a lone "\r" into "\n"
RECURSIVE read_text(_)
read_text(bytes) ==
    IF bytes = <<>> THEN <<>>
    ELSE IF Head(bytes) = "CR"
    THEN << "LF" >> \o read_text(IF Len(bytes) >= 2 /\ bytes[2] = "LF"
                                 THEN SubSeq(bytes, 3, Len(bytes))
                                 ELSE Tail(bytes))
    ELSE << Head(bytes) >> \o read_text(Tail(bytes))

\* open(path, 'w').write(content): text mode writes os.linesep for "\n"
RECURSIVE write_text(_, _)
write_text(content, sep) ==
    IF content = <<>> THEN <<>>
    ELSE ( IF Head(content) = "LF" THEN sep ELSE << Head(content) >> )
             \o write_text(Tail(content), sep)

\* SnapshotSystem._collect_files (lines and mtime left out)
collect_files(proj) ==
    [ path \in { q \in Paths : proj[q] # Absent } |->
        [ content |-> read_text(proj[path]) ] ]

\* gzip.compress of the JSON text of a payload, and gzip.decompress, which
\* raises on bytes that are not a gzip stream
gzip_compress(payload) == [ gzip |-> payload ]
gzip_decompress_raises(payload_gzip) == "gzip" \notin DOMAIN payload_gzip
gzip_decompress(payload_gzip) == payload_gzip.gzip

\* base64.b64encode and base64.b64decode
b64encode(data) == [ b64 |-> data ]
b64decode(text) == text.b64

\* hashlib.sha256(...).hexdigest(): distinct inputs, distinct digests
sha256(data) == [ sha256 |-> data ]

\* a data_hash that is the empty string, or a metadata without the key
NoHash == [ sha256_empty |-> TRUE ]

\* the SnapshotMetadata that save_snapshot builds (datetime_str, the git
\* fields, the accuracy and the totals left out)
SnapshotMetadata(timestamp, reason, data_hash) ==
    [ snapshot_id |-> generate_snapshot_id(timestamp, reason),
      timestamp |-> timestamp, reason |-> reason, data_hash |-> data_hash ]

\* open(snapshot_file, 'w') and write: a file of that name is replaced
write_snapshot(files, metadata, data_b64_gzip) ==
    [ id \in (DOMAIN files) \cup { metadata.snapshot_id } |->
        IF id = metadata.snapshot_id
        THEN [ version |-> 1, metadata |-> metadata,
               data_b64_gzip |-> data_b64_gzip ]
        ELSE files[id] ]

\* SnapshotSystem._cleanup_old_snapshots at time t: the files left
cleanup_old_snapshots(files, t) ==
    LET cutoff_time == t - RetentionTicks
    IN  [ id \in { i \in DOMAIN files :
                     ~( files[i].metadata.timestamp < cutoff_time ) } |->
            files[id] ]

\* SnapshotSystem.save_snapshot(reason) called at time timestamp over the
\* stored files and the project proj, its cleanup running at cleanup_time:
\* the metadata returned, the stored files after the write and after the
\* cleanup
save_snapshot(files, proj, timestamp, reason, cleanup_time) ==
    LET payload       == [ version |-> 1, files |-> collect_files(proj) ]
        payload_gzip  == gzip_compress(payload)
        data_b64_gzip == b64encode(payload_gzip)
        metadata      == SnapshotMetadata(timestamp, reason, sha256(payload_gzip))
        written       == write_snapshot(files, metadata, data_b64_gzip)
    IN  [ metadata |-> metadata, written |-> written,
          store |-> cleanup_old_snapshots(written, cleanup_time) ]

\* SnapshotSystem.list_snapshots, as the set of the metadata listed
list_snapshots(files) == { files[id].metadata : id \in DOMAIN files }

\* the reason of the backup that restore_snapshot saves
PRE_RESTORE_BACKUP ==
    << "p", "r", "e", "_", "r", "e", "s", "t", "o", "r", "e", "_",
       "b", "a", "c", "k", "u", "p" >>

\* what the operator types at the prompt of restore_snapshot
Responses == { "yes", "YES", "no", "" }

\* str.lower on these
lower(response) == IF response = "YES" THEN "yes" ELSE response

\* if expected_hash and actual_hash != expected_hash
hash_mismatch(expected_hash, actual_hash) ==
    expected_hash # NoHash /\ actual_hash # expected_hash

\* an empty snapshot_dir, no save yet
NoSnapshots ==
    /\ now = 0
    /\ store = <<>>
    /\ saved = <<>>
    /\ last_cleanup = NoneValue
    /\ advances = 0
    /\ save_log = <<>>

\* a project of two one-line files, no restore_snapshot call yet
NoRestore ==
    /\ project = [ path \in Paths |-> << "x", "LF" >> ]
    /\ linesep = << "LF" >>
    /\ restore_pc = "idle"
    /\ restore_id = NoneValue
    /\ restore_gzip = NoneValue
    /\ restore_files = NoneValue
    /\ restore_returned = FALSE
    /\ restore_events = <<>>
    /\ restore_start = NoneValue
    /\ edits = 0
    /\ tampers = 0

\* no CentralController yet; governance_rules.json holds one of the tables
\* or does not exist
Init ==
    /\ config_file \in Configs \cup { NoneValue }
    /\ controller = "unbuilt"
    /\ config = NoneValue
    /\ handlers = {}
    /\ validators = {}
    /\ pc = "idle"
    /\ command = NoneValue
    /\ FreshLocals
    /\ arb_claims = <<>>
    /\ final_fields = NoneValue
    /\ NoScores
    /\ gate_file \in { NoneValue, AllEnabled }
    /\ caller = "api"
    /\ NoGate
    /\ NoThreads
    /\ NoSnapshots
    /\ NoRestore

load_config_raises_never(file) == FALSE

\* CentralController._load_config raises FileNotFoundError
load_config_raises(file) == file = NoneValue

\* CentralController._load_config: json.load of the file, of which the
\* model keeps the capabilities table
load_config(file) == file

\* CentralController.__init__(config_path)
Construct ==
    /\ ~exited
    /\ controller = "unbuilt"
    /\ pc = "idle"
    /\ IF load_config_raises(config_file)
       THEN /\ controller' = "raised"
            /\ UNCHANGED << config, handlers, validators >>
       ELSE /\ config' = load_config(config_file)
            /\ handlers' = {}
            /\ validators' = {}
            /\ controller' = "built"
    /\ UNCHANGED << config_file, pc, locals, history, arbvars, extvars >>

\* ------------------------------------------------------------------------
\* Registration
\* ------------------------------------------------------------------------
Between ==
    /\ ~exited
    /\ controller = "built"
    /\ pc \in { "idle", "returned", "raised" }

\* GovernanceGate.__init__(config_path), called while no process call and
\* no execute_all_layers call is under way
GateConstruct ==
    /\ ~exited
    /\ gate = "unbuilt"
    /\ pc \in { "idle", "returned", "raised" }
    /\ IF gate_load_config_exits(gate_file)
       THEN /\ gate' = "exited"
            /\ exited' = TRUE
            /\ exit_status' = 1
            /\ UNCHANGED << gate_config, gate_results >>
       ELSE /\ gate' = "built"
            /\ gate_config' = gate_load_config(gate_file)
            /\ gate_results' = <<>>
            /\ UNCHANGED << exited, exit_status >>
    /\ UNCHANGED << registry, pc, locals, history, arbvars, scorevars, concvars, snapvars,
                    restorevars,
                    gate_file, gate_pc, all_passed, gate_returned, snapshots,
                    gate_runs, caller >>

\* the locals and the history of a process call that has not started
ResetLocals ==
    /\ triggered_handlers' = <<>>
    /\ all_claims' = <<>>
    /\ validation_results' = NoneValue
    /\ evaluation' = NoneValue
    /\ approval' = NoneValue
    /\ execution_result' = NoneValue
    /\ envelope' = NoneValue
    /\ handler_calls' = NoCalls
    /\ produced' = <<>>
    /\ validated' = <<>>
    /\ evaluations' = <<>>
    /\ repl_calls' = <<>>
    /\ repl_returned' = <<>>
    /\ exec_calls' = <<>>

\* CentralController.register_handler, called between two process calls
RegisterHandler(handler_name) ==
    /\ Between
    /\ handlers' = handlers \cup { handler_name }
    /\ pc' = "idle"
    /\ command' = NoneValue
    /\ ResetLocals
    /\ UNCHANGED << config, validators, config_file, controller, arbvars, extvars >>

\* CentralController.register_validator, called between two process calls
RegisterValidator(validator_name) ==
    /\ Between
    /\ validators' = validators \cup { validator_name }
    /\ pc' = "idle"
    /\ command' = NoneValue
    /\ ResetLocals
    /\ UNCHANGED << config, handlers, config_file, controller, arbvars, extvars >>

\* ------------------------------------------------------------------------
\* CentralController.process, phase by phase
\* ------------------------------------------------------------------------
\* entry of process(command)
Process(cmd) ==
    /\ Between
    /\ command' = cmd
    /\ ResetLocals
    /\ pc' = "phase2"
    /\ UNCHANGED << registry, arbvars, extvars >>

DetectTriggers_pops_action ==
    /\ pc = "phase2"
    /\ triggered_handlers' = detect_triggers(command_get_action(command))
    /\ pc' = "phase3"
    /\ command' = [ k \in (DOMAIN command) \ { "action" } |-> command[k] ]
    /\ UNCHANGED << registry, all_claims, validation_results,
                    evaluation, approval, execution_result, envelope,
                    history, arbvars, extvars >>

\* Phase 2: action = command.get("action"); _detect_triggers(action)
DetectTriggers ==
    /\ pc = "phase2"
    /\ triggered_handlers' = detect_triggers(command_get_action(command))
    /\ pc' = "phase3"
    /\ UNCHANGED << registry, command, all_claims, validation_results,
                    evaluation, approval, execution_result, envelope,
                    history, arbvars, extvars >>

\* _invoke_handlers, the calls of the loop over handler_names: the lists
\* that the registered handlers may return, in the order of handler_names;
\* an unregistered name is skipped with a warning
RECURSIVE handler_returns(_, _)
handler_returns(handler_names, data) ==
    IF handler_names = <<>> THEN { <<>> }
    ELSE LET n     == Len(handler_names)
             name  == handler_names[n]
             front == handler_returns(SubSeq(handler_names, 1, n - 1), data)
         IN  IF name \in handlers /\ check_capability(name, data)
             THEN { returns \o << [ handler_name |-> name, claims |-> handler_claims ] >> :
                      returns \in front,
                      handler_claims \in ProducerOutputs(name, 10 * (n - 1)) }
             ELSE front

RECURSIVE extend_claims_prefiltered(_)
extend_claims_prefiltered(returns) ==
    IF returns = <<>> THEN <<>>
    ELSE extend_claims_prefiltered(SubSeq(returns, 1, Len(returns) - 1))
           \o SelectSeq(returns[Len(returns)].claims,
                        LAMBDA claim : validate_capability(claim, config))

\* _invoke_handlers, claims.extend(handler_claims) for each returned list
RECURSIVE extend_claims(_)
extend_claims(returns) ==
    IF returns = <<>> THEN <<>>
    ELSE extend_claims(SubSeq(returns, 1, Len(returns) - 1))
           \o returns[Len(returns)].claims

\* Phase 3: _invoke_handlers(triggered_handlers, command)
InvokeHandlers_twice ==
    /\ pc = "phase3"
    /\ \E returns \in handler_returns(triggered_handlers, command) :
           /\ produced' = produced \o returns
           /\ all_claims' = extend_claims(returns)
    /\ handler_calls' =
           [ n \in HandlerNames |->
               handler_calls[n] + 2 *
               Cardinality({ i \in 1..Len(triggered_handlers) :
                               triggered_handlers[i] = n /\ n \in handlers }) ]
    /\ pc' = "phase4"
    /\ UNCHANGED << registry, command, triggered_handlers, validation_results,
                    evaluation, approval, execution_result, envelope,
                    validated, evaluations, repl_calls, repl_returned,
                    exec_calls, arbvars, extvars >>

\* Phase 3: every triggered, registered handler is called once; handler_calls
\* counts the handler.process calls of the run
InvokeHandlers ==
    /\ pc = "phase3"
    /\ \E returns \in handler_returns(triggered_handlers, command) :
           /\ produced' = produced \o returns
           /\ all_claims' = extend_claims(returns)
    /\ handler_calls' =
           [ n \in HandlerNames |->
               handler_calls[n] +
               Cardinality({ i \in 1..Len(triggered_handlers) :
                               triggered_handlers[i] = n /\ n \in handlers }) ]
    /\ pc' = "phase4"
    /\ UNCHANGED << registry, command, triggered_handlers, validation_results,
                    evaluation, approval, execution_result, envelope,
                    validated, evaluations, repl_calls, repl_returned,
                    exec_calls, arbvars, extvars >>

validator_invoked_capacity_only(name) ==
    name = "CapacityValidator"

\* _invoke_validators: the if / elif on the validator's name
validator_invoked(name) ==
    name = "CapacityValidator" \/ name = "ConsistencyValidator"

\* Phase 4: _invoke_validators(all_claims, command)
InvokeValidators ==
    /\ pc = "phase4"
    /\ \E capacity \in Outcomes, consistency \in Outcomes :
           validation_results' =
               [ capacity |->
                     IF "CapacityValidator" \in validators
                        /\ validator_invoked("CapacityValidator")
                     THEN capacity ELSE NoneValue,
                 consistency |->
                     IF "ConsistencyValidator" \in validators
                        /\ validator_invoked("ConsistencyValidator")
                     THEN consistency ELSE NoneValue ]
    /\ validated' =
           Append(validated,
                  [ claims  |-> all_claims, data |-> command,
                    calls   |-> [ n \in validators |->
                                    IF validator_invoked(n) THEN 1 ELSE 0 ],
                    results |-> validation_results' ])
    /\ pc' = "phase5"
    /\ UNCHANGED << registry, command, triggered_handlers, all_claims,
                    evaluation, approval, execution_result, envelope,
                    handler_calls, produced, evaluations, repl_calls, repl_returned,
                    exec_calls, arbvars, extvars >>

EvaluateValidations_first_kept ==
    /\ pc = "phase5"
    /\ IF evaluate_raises(validation_results)
       THEN /\ pc' = "raised"
            /\ UNCHANGED << evaluation, evaluations >>
       ELSE /\ evaluation' = IF Len(evaluations) = 0
                             THEN evaluate_validations(validation_results)
                             ELSE evaluation
            /\ evaluations' =
                   Append(evaluations, evaluate_validations(validation_results))
            /\ pc' = IF Len(evaluations) = 0 THEN "phase6" ELSE "phase7"
    /\ UNCHANGED << registry, command, triggered_handlers, all_claims,
                    validation_results, approval, execution_result, envelope,
                    handler_calls, produced, validated, repl_calls, repl_returned,
                    exec_calls, arbvars, extvars >>

\* Phase 5: _evaluate_validations(validation_results); the AttributeError
\* it raises is not caught by process
EvaluateValidations ==
    /\ pc = "phase5"
    /\ IF evaluate_raises(validation_results)
       THEN /\ pc' = "raised"
            /\ UNCHANGED << evaluation, evaluations >>
       ELSE /\ evaluation' = evaluate_validations(validation_results)
            /\ evaluations' =
                   Append(evaluations, evaluate_validations(validation_results))
            /\ pc' = IF Len(evaluations) = 0 THEN "phase6" ELSE "phase7"
    /\ UNCHANGED << registry, command, triggered_handlers, all_claims,
                    validation_results, approval, execution_result, envelope,
                    handler_calls, produced, validated, repl_calls, repl_returned,
                    exec_calls, arbvars, extvars >>

replacement_needed_any_failure(eval) == ~eval.all_ok

\* Phase 6: the test  if not evaluation["capacity_ok"]
replacement_needed(eval) == ~eval.capacity_ok

extend_with_replacement_replaces(claims, replacement_claims) ==
    replacement_claims

\* Phase 6: all_claims.extend(replacement_claims)
extend_with_replacement(claims, replacement_claims) ==
    claims \o replacement_claims

retry_always(replacement_claims) == TRUE

\* Phase 6: the test  if replacement_claims  (a non-empty list)
retry_needed(replacement_claims) == replacement_claims # <<>>

\* Phase 6 not entered: capacity_ok holds after the first pass
SkipAutoReplacement ==
    /\ pc = "phase6"
    /\ ~replacement_needed(evaluation)
    /\ pc' = "phase7"
    /\ UNCHANGED << registry, locals, history, arbvars, extvars >>

InvokeAutoReplacement_back_to_handlers ==
    /\ pc = "phase6"
    /\ replacement_needed(evaluation)
    /\ \E replacement_claims \in
            ( IF "AutoReplacementProposer" \in handlers
              THEN ProducerOutputs("AutoReplacementProposer", 20)
              ELSE { <<>> } ) :
        /\ repl_returned' = Append(repl_returned, replacement_claims)
        /\ IF retry_needed(replacement_claims)
           THEN /\ all_claims' =
                     extend_with_replacement(all_claims, replacement_claims)
                /\ pc' = "phase3"
           ELSE /\ all_claims' = all_claims
                /\ pc' = "phase7"
    /\ repl_calls' =
           IF "AutoReplacementProposer" \in handlers
           THEN Append(repl_calls, [ command |-> command,
                                     validation_results |-> validation_results ])
           ELSE repl_calls
    /\ UNCHANGED << registry, command, triggered_handlers, validation_results,
                    evaluation, approval, execution_result, envelope,
                    handler_calls, produced, validated, evaluations, exec_calls, arbvars, extvars >>

\* Phase 6: _invoke_auto_replacement(command, validation_results), then the
\* second pass when replacement_claims is non-empty
InvokeAutoReplacement ==
    /\ pc = "phase6"
    /\ replacement_needed(evaluation)
    /\ \E replacement_claims \in
            ( IF "AutoReplacementProposer" \in handlers
              THEN ProducerOutputs("AutoReplacementProposer", 20)
              ELSE { <<>> } ) :
        /\ repl_returned' = Append(repl_returned, replacement_claims)
        /\ IF retry_needed(replacement_claims)
           THEN /\ all_claims' =
                     extend_with_replacement(all_claims, replacement_claims)
                /\ pc' = "phase4"
           ELSE /\ all_claims' = all_claims
                /\ pc' = "phase7"
    /\ repl_calls' =
           IF "AutoReplacementProposer" \in handlers
           THEN Append(repl_calls, [ command |-> command,
                                     validation_results |-> validation_results ])
           ELSE repl_calls
    /\ UNCHANGED << registry, command, triggered_handlers, validation_results,
                    evaluation, approval, execution_result, envelope,
                    handler_calls, produced, validated, evaluations, exec_calls, arbvars, extvars >>

\* Phase 7: _final_approval(all_claims, evaluation)
FinalApproval ==
    /\ pc = "phase7"
    /\ approval' = final_approval(all_claims, evaluation)
    /\ pc' = "decide"
    /\ UNCHANGED << registry, command, triggered_handlers, all_claims,
                    validation_results, evaluation, execution_result, envelope,
                    history, arbvars, extvars >>

\* if not approval["approved"]: return the rejection envelope
ReturnRejection ==
    /\ pc = "decide"
    /\ ~approval.approved
    /\ envelope' = [ success |-> FALSE, error |-> approval.reason,
                     phase |-> "approval" ]
    /\ pc' = "returned"
    /\ UNCHANGED << registry, command, triggered_handlers, all_claims,
                    validation_results, evaluation, approval, execution_result,
                    history, arbvars, extvars >>

Execute_unguarded ==
    /\ pc = "decide"
    /\ execution_result' = execute(all_claims, command)
    /\ exec_calls' = Append(exec_calls, all_claims)
    /\ pc' = "phase9"
    /\ UNCHANGED << registry, command, triggered_handlers, all_claims,
                    validation_results, evaluation, approval, envelope,
                    handler_calls, produced, validated, evaluations, repl_calls,
                    repl_returned, arbvars, extvars >>

\* Phase 8: _execute(approval["approved_claims"], command)
Execute ==
    /\ pc = "decide"
    /\ approval.approved
    /\ execution_result' = execute(approval.approved_claims, command)
    /\ exec_calls' = Append(exec_calls, approval.approved_claims)
    /\ pc' = "phase9"
    /\ UNCHANGED << registry, command, triggered_handlers, all_claims,
                    validation_results, evaluation, approval, envelope,
                    handler_calls, produced, validated, evaluations, repl_calls,
                    repl_returned, arbvars, extvars >>

\* Phase 9: return self._format_result(execution_result)
FormatResult ==
    /\ pc = "phase9"
    /\ envelope' = format_result(execution_result)
    /\ pc' = "returned"
    /\ UNCHANGED << registry, command, triggered_handlers, all_claims,
                    validation_results, evaluation, approval, execution_result,
                    history, arbvars, extvars >>

Next ==
    \/ Construct
    \/ GateConstruct
    \/ \E handler_name \in HandlerNames : RegisterHandler(handler_name)
    \/ \E validator_name \in ValidatorNames : RegisterValidator(validator_name)
    \/ \E cmd \in Commands : Process(cmd)
    \/ DetectTriggers
    \/ InvokeHandlers
    \/ InvokeValidators
    \/ EvaluateValidations
    \/ SkipAutoReplacement
    \/ InvokeAutoReplacement
    \/ FinalApproval
    \/ ReturnRejection
    \/ Execute
    \/ FormatResult

Spec == Init /\ [][Next]_vars

\* ------------------------------------------------------------------------
\* Direct calls of ClaimArbiter.arbitrate
\* ------------------------------------------------------------------------
\* claim types and producers of the claims handed to arbitrate
ArbTypes == { "TARGET_SLOT_ID", "CAN_FIT" }
ArbHandlers == { "TaskPlacementProposer", "CapacityValidator" }

\* score inputs << confidence, domain_dictionary_match, rule_match >> of
\* those claims: scores 65, 55, 45, 45 and 95 (for the confidences 0.5 and
\* 0.9 the float product confidence * 50 is exact: 25.0 and 45.0)
ScoreInputs ==
    { << 90, FALSE, TRUE >>, << 50, TRUE, FALSE >>,
      << 50, FALSE, TRUE >>, << 90, FALSE, FALSE >>,
      << 90, TRUE, TRUE >> }

\* the claims that can stand at position i of the list: the i-th claim
\* carries the payload i, so that a value of the result identifies the
\* claim it is from
ArbClaims(i) ==
    { Claim(t, h, i, s[1], s[2], s[3]) :
        t \in ArbTypes, h \in ArbHandlers, s \in ScoreInputs }

InitArb ==
    /\ config \in Configs
    /\ gate_file = NoneValue
    /\ caller = "api"
    /\ NoGate
    /\ NoThreads
    /\ NoSnapshots
    /\ NoRestore
    /\ config_file = NoneValue
    /\ controller = "unbuilt"
    /\ NoScores
    /\ handlers = {}
    /\ validators = {}
    /\ pc = "idle"
    /\ command = NoneValue
    /\ FreshLocals
    /\ arb_claims = <<>>
    /\ final_fields = NoneValue

\* the caller collects one more claim into the list it will hand over
AddClaim ==
    /\ final_fields = NoneValue
    /\ Len(arb_claims) < MaxClaims
    /\ \E c \in ArbClaims(Len(arb_claims) + 1) :
           arb_claims' = Append(arb_claims, c)
    /\ UNCHANGED << registry, pc, locals, history, final_fields, extvars >>

\* arbiter.arbitrate(arb_claims) on an arbiter built with config
Arbitrate ==
    /\ final_fields = NoneValue
    /\ final_fields' = arbitrate(arb_claims, config)
    /\ UNCHANGED << registry, pc, locals, history, arb_claims, extvars >>

NextArb == AddClaim \/ Arbitrate

SpecArb == InitArb /\ [][NextArb]_vars

\* ------------------------------------------------------------------------
\* Properties
\* ------------------------------------------------------------------------
\* the claim types that occur in a claim list
TypesOf(claims) == { claims[i].claim_type : i \in 1..Len(claims) }

\* the first validation pass has been evaluated and Phase 6 is behind
AfterPhase6 == evaluations # <<>> /\ pc # "phase6"

\* the run has got to final approval or further
AtOrAfterApproval == pc \in { "phase7", "decide", "phase9", "returned" }

\* C1: after arbitrate(arb_claims), a claim whose claim_type is not in the
\* can_claim list of its handler_name supplies the value of no field of the
\* returned mapping, and a type all of whose claims are unauthorized has no
\* field in the mapping.
C1_UnauthorizedNeverWins ==
    final_fields # NoneValue =>
        /\ \A i \in 1..Len(arb_claims) :
               ~validate_capability(arb_claims[i], config) =>
                   \A f \in DOMAIN final_fields :
                       final_fields[f] # arb_claims[i].value
        /\ \A t \in TypesOf(arb_claims) :
               ( \A i \in 1..Len(arb_claims) :
                     arb_claims[i].claim_type = t
                         => ~validate_capability(arb_claims[i], config) )
               => claim_type_to_field_name(t) \notin DOMAIN final_fields

\* C2: _execute has run only if the latest evaluation has all_ok and every
\* winning claim (the best claim of each type of all_claims) is authorized
\* by the capabilities table.
C2_ExecutionNeedsAuthorizedWinners ==
    exec_calls # <<>> =>
        /\ evaluation.all_ok
        /\ \A t \in TypesOf(all_claims) :
               validate_capability(best_claim(all_claims, t), config)

\* C3: _execute is called only in a run whose _final_approval returned
\* approved = True; a run that returns the rejection envelope has called
\* _execute not at all and has no execution result.
C3_ExecutionOnlyAfterApproval ==
    /\ exec_calls # <<>> => ( approval # NoneValue /\ approval.approved )
    /\ Len(exec_calls) <= 1
    /\ ( envelope # NoneValue /\ ~envelope.success ) =>
           /\ exec_calls = <<>>
           /\ execution_result = NoneValue
           /\ ~approval.approved
           /\ envelope = [ success |-> FALSE, error |-> approval.reason,
                           phase |-> "approval" ]

\* a run has been rejected after having collected claims
C3_Witness ==
    /\ pc = "returned"
    /\ ~envelope.success
    /\ all_claims # <<>>
    /\ exec_calls = <<>>

\* C4 as stated: the replacement producer is invoked iff capacity_ok is
\* false after the first pass, with the command and the first-pass results,
\* and at most once.
C4_ReplacementIffCapacityFailed ==
    /\ Len(repl_calls) <= 1
    /\ AfterPhase6 => ( Len(repl_calls) = 1 <=> ~evaluations[1].capacity_ok )
    /\ ~AfterPhase6 => repl_calls = <<>>

\* C4 amended: _invoke_auto_replacement runs iff capacity_ok is false after
\* the first pass, and the replacement producer is invoked iff moreover it
\* is registered as AutoReplacementProposer; it receives the command and
\* the first-pass validation results; neither happens more than once in a
\* run, also when the second pass still fails.
C4_ReplacementIffCapacityFailedAndRegistered ==
    /\ Len(repl_calls) <= 1
    /\ Len(repl_returned) <= 1
    /\ AfterPhase6 =>
           /\ Len(repl_returned) = 1 <=> ~evaluations[1].capacity_ok
           /\ Len(repl_calls) = 1 <=>
                  ( ~evaluations[1].capacity_ok
                    /\ "AutoReplacementProposer" \in handlers )
    /\ ~AfterPhase6 => ( repl_calls = <<>> /\ repl_returned = <<>> )
    /\ \A k \in 1..Len(repl_calls) :
           repl_calls[k] = [ command |-> command,
                             validation_results |-> validated[1].results ]

\* the producer has been invoked once and the second pass failed capacity again
C4_Witness ==
    /\ pc = "returned"
    /\ Len(repl_calls) = 1
    /\ Len(evaluations) = 2
    /\ ~evaluations[2].capacity_ok

\* C5: a run makes at most two validation rounds; the second one is made
\* exactly when the first evaluation has capacity_ok false and the
\* replacement call returned a non-empty list, on the claim set extended by
\* that list; there is no third round.
C5_AtMostTwoRounds ==
    /\ Len(validated) <= 2
    /\ Len(evaluations) <= Len(validated)
    /\ AtOrAfterApproval =>
           /\ Len(evaluations) = Len(validated)
           /\ Len(validated) = 2 <=>
                  ( /\ ~evaluations[1].capacity_ok
                    /\ repl_returned # <<>>
                    /\ repl_returned[1] # <<>> )
    /\ Len(validated) = 2 =>
           /\ repl_returned # <<>>
           /\ validated[2].claims = validated[1].claims \o repl_returned[1]
    /\ ~AfterPhase6 => Len(validated) <= 1

\* a run whose second round failed as well has got to its end
C5_Witness ==
    /\ pc = "returned"
    /\ Len(validated) = 2
    /\ ~evaluations[2].all_ok

\* the consistency validator reported passed = False in the first pass
ConsistencyFailedFirst ==
    /\ validated # <<>>
    /\ validated[1].results.consistency = [ passed |-> FALSE ]

C7_MissingValidatorPasses ==
    /\ pc # "raised"
    /\ \A k \in 1..Len(evaluations) :
           /\ validated[k].results.capacity = NoneValue
                  => evaluations[k].capacity_ok
           /\ validated[k].results.consistency = NoneValue
                  => evaluations[k].consistency_ok
    /\ ( validators = {} /\ pc \in { "phase6", "phase7", "decide", "phase9", "returned" } )
           => ( evaluations # <<>> /\ evaluations[1].all_ok )

\* C8 as stated: in every validation round every registered validator,
\* whatever its name, is invoked exactly once.
C8_EveryRegisteredValidatorInvoked ==
    \A k \in 1..Len(validated) :
        \A n \in validators : validated[k].calls[n] = 1

\* C8 amended: in every validation round the validators registered as
\* CapacityValidator and ConsistencyValidator are each invoked exactly once
\* with the full current claim set and the command, whether or not the
\* other one reports failure; a validator registered under any other name
\* is not invoked.
C8_NamedValidatorsInvoked ==
    /\ \A k \in 1..Len(validated) :
           /\ DOMAIN validated[k].calls = validators
           /\ \A n \in validators :
                  validated[k].calls[n] =
                      IF n \in { "CapacityValidator", "ConsistencyValidator" }
                      THEN 1 ELSE 0
           /\ validated[k].data = command
           /\ validated[k].results.capacity # NoneValue
                  <=> "CapacityValidator" \in validators
           /\ validated[k].results.consistency # NoneValue
                  <=> "ConsistencyValidator" \in validators
    /\ pc = "phase5" => validated[Len(validated)].claims = all_claims

\* both named validators ran in a second round although capacity failed,
\* next to a validator registered under another name
C8_Witness ==
    /\ pc = "phase5"
    /\ validators = ValidatorNames
    /\ Len(validated) = 2
    /\ Len(all_claims) >= 2
    /\ validation_results.capacity = [ passed |-> FALSE ]
    /\ validation_results.consistency = [ passed |-> FALSE ]

\* C9: the mapping returned by arbitrate has exactly one field per claim
\* type of the input, never the field UNKNOWN, the field of a type holds the
\* value of a claim of that type, and the type-to-field table is injective
\* on ClaimType.
C9_OneFieldPerType ==
    final_fields # NoneValue =>
        /\ Cardinality(DOMAIN final_fields) = Cardinality(TypesOf(arb_claims))
        /\ "UNKNOWN" \notin DOMAIN final_fields
        /\ \A t \in TypesOf(arb_claims) :
               /\ claim_type_to_field_name(t) \in DOMAIN final_fields
               /\ \E i \in 1..Len(arb_claims) :
                      /\ arb_claims[i].claim_type = t
                      /\ final_fields[claim_type_to_field_name(t)]
                             = arb_claims[i].value
        /\ \A t1 \in ClaimType, t2 \in ClaimType :
               claim_type_to_field_name(t1) = claim_type_to_field_name(t2)
                   => t1 = t2
        /\ \A t \in ClaimType : claim_type_to_field_name(t) # "UNKNOWN"

\* arbitrate has returned two fields for three claims of two types
C9_Witness ==
    /\ final_fields # NoneValue
    /\ Len(arb_claims) = 3
    /\ Cardinality(TypesOf(arb_claims)) = 2
    /\ Cardinality(DOMAIN final_fields) = 2

\* positions of the claims of type t in arb_claims
PositionsOf(t) == { i \in 1..Len(arb_claims) : arb_claims[i].claim_type = t }

\* C10: for each claim type of the input, the field of the type holds the
\* value of the claim of that type with the highest score, and among
\* several claims with that score of the one that is earliest in the list.
C10_HighestScoreEarliestWins ==
    final_fields # NoneValue =>
        \A t \in TypesOf(arb_claims) :
            \E i \in PositionsOf(t) :
                /\ final_fields[claim_type_to_field_name(t)] = arb_claims[i].value
                /\ \A j \in PositionsOf(t) :
                       /\ calculate_score(arb_claims[j])
                              <= calculate_score(arb_claims[i])
                       /\ calculate_score(arb_claims[j])
                              = calculate_score(arb_claims[i]) => i <= j

\* the first of two claims that tie at the top of their group has won over
\* them and a lower-scoring first claim
C10_Witness ==
    /\ final_fields # NoneValue
    /\ Len(arb_claims) = 3
    /\ Cardinality(TypesOf(arb_claims)) = 1
    /\ calculate_score(arb_claims[1]) < calculate_score(arb_claims[2])
    /\ calculate_score(arb_claims[2]) = calculate_score(arb_claims[3])
    /\ final_fields[claim_type_to_field_name(arb_claims[2].claim_type)] = 2

\* ------------------------------------------------------------------------
\* Direct calls of ClaimArbiter._calculate_score
\* ------------------------------------------------------------------------
\* confidence 1.0 in hundredths, the upper end of the range of Claim.confidence
ConfidenceScale == 100

\* the claims of the two calls: the same evidence, two confidences
ScoreClaim(args, conf) ==
    Claim("TARGET_SLOT_ID", "TaskPlacementProposer", 1, conf,
          args.domain_dictionary_match, args.rule_match)

InitScore ==
    /\ config \in Configs
    /\ gate_file = NoneValue
    /\ caller = "api"
    /\ NoGate
    /\ NoThreads
    /\ NoSnapshots
    /\ NoRestore
    /\ config_file = NoneValue
    /\ controller = "unbuilt"
    /\ handlers = {}
    /\ validators = {}
    /\ pc = "idle"
    /\ command = NoneValue
    /\ FreshLocals
    /\ arb_claims = <<>>
    /\ final_fields = NoneValue
    /\ score_args = NoneValue
    /\ score_out = NoneValue

\* the caller picks the evidence and the two confidences
ChooseScoreArgs ==
    /\ score_args = NoneValue
    /\ \E a \in 0..ConfidenceScale, b \in 0..ConfidenceScale,
          dd \in BOOLEAN, rm \in BOOLEAN :
           score_args' = [ confidence_a |-> a, confidence_b |-> b,
                           domain_dictionary_match |-> dd, rule_match |-> rm ]
    /\ UNCHANGED << registry, pc, locals, history, arbvars, score_out, gatevars, concvars,
                    snapvars, restorevars >>

\* arbiter._calculate_score(a) and arbiter._calculate_score(b)
CalculateScores ==
    /\ score_args # NoneValue
    /\ score_out = NoneValue
    /\ score_out' =
           << calculate_score(ScoreClaim(score_args, score_args.confidence_a)),
              calculate_score(ScoreClaim(score_args, score_args.confidence_b)) >>
    /\ UNCHANGED << registry, pc, locals, history, arbvars, score_args, gatevars, concvars,
                    snapvars, restorevars >>

NextScore == ChooseScoreArgs \/ CalculateScores

SpecScore == InitScore /\ [][NextScore]_vars

\* the two claims of the example of the scoring rule
ExampleA ==
    Claim("TARGET_SLOT_ID", "TaskPlacementProposer", 1, 90, FALSE, TRUE)
ExampleB ==
    Claim("TARGET_SLOT_ID", "TaskPlacementProposer", 2, 50, TRUE, FALSE)

C12_ScoreMonotoneInConfidence ==
    ( score_out # NoneValue
      /\ score_args.confidence_a <= score_args.confidence_b )
        => score_out[1] <= score_out[2]

\* two different confidences with the same evidence have been scored
C12_Witness ==
    /\ score_out # NoneValue
    /\ score_args.confidence_a < score_args.confidence_b
    /\ score_args.domain_dictionary_match
    /\ score_out[1] < score_out[2]

\* the process call has returned the rejection envelope
Rejected == envelope # NoneValue /\ ~envelope.success

C14_UniformEnvelope ==
    envelope # NoneValue =>
        /\ envelope.success \in BOOLEAN
        /\ "phase" \in DOMAIN envelope
        /\ envelope.success =>
               ( "result" \in DOMAIN envelope /\ "error" \notin DOMAIN envelope )
        /\ ~envelope.success =>
               ( "error" \in DOMAIN envelope /\ "result" \notin DOMAIN envelope )

\* the lists of a sequence of lists laid end to end, first list first
RECURSIVE Concatenation(_)
Concatenation(lists) ==
    IF lists = <<>> THEN <<>>
    ELSE Head(lists) \o Concatenation(Tail(lists))

\* the triggered producer names that are registered, in trigger-table order
RegisteredTriggered == SelectSeq(triggered_handlers, LAMBDA n : n \in handlers)

\* C18: the claims handed to the validators in the first round are the
\* lists returned by the registered triggered producers, laid end to end in
\* trigger-table order with nothing filtered out; the second round sees
\* the same claims followed by the replacement claims in returned order.
C18_ValidatedClaimsAreProducedClaims ==
    /\ Len(validated) >= 1 =>
           /\ [ i \in 1..Len(produced) |-> produced[i].handler_name ]
                  = RegisteredTriggered
           /\ validated[1].claims
                  = Concatenation([ i \in 1..Len(produced) |-> produced[i].claims ])
    /\ Len(validated) = 2 =>
           validated[2].claims = validated[1].claims \o repl_returned[1]

\* two rounds: a producer without authorization returned two claims that
\* reached the validators, and replacement claims followed them
C18_Witness ==
    /\ Len(validated) = 2
    /\ Len(produced) = 1
    /\ Len(produced[1].claims) = 2
    /\ \E i \in 1..Len(validated[1].claims) :
           ~validate_capability(validated[1].claims[i], config)
    /\ repl_returned[1] # <<>>
    /\ Len(validated[2].claims) > Len(validated[1].claims)

\* the actions of the trigger table of _detect_triggers
KnownActions == { "place", "create_template", "create_slot", "complete", "list" }

\* the process call is past phase 2 with an action outside the trigger
\* table, or with no action at all
UnknownActionRun ==
    /\ command # NoneValue
    /\ pc \notin { "idle", "phase2" }
    /\ \A i \in 1..Len(command_get_action(command)) :
           command_get_action(command)[i] \notin KnownActions

\* C16: the five actions of the trigger table map to their one producer and
\* every other or missing action to the empty sequence; a run with such an
\* action invokes no triggered producer and does not raise.
C16_UnknownActionIsNoOp ==
    /\ detect_triggers(<< "place" >>) = << "TaskPlacementProposer" >>
    /\ detect_triggers(<< "create_template" >>) = << "TaskTemplateManager" >>
    /\ detect_triggers(<< "create_slot" >>) = << "TimeSlotManager" >>
    /\ detect_triggers(<< "complete" >>) = << "TaskCompletionHandler" >>
    /\ detect_triggers(<< "list" >>) = << "DisplayHandler" >>
    /\ detect_triggers(<< "undo" >>) = <<>>
    /\ detect_triggers(<<>>) = <<>>
    /\ UnknownActionRun =>
           /\ triggered_handlers = <<>>
           /\ handler_calls = NoCalls
           /\ produced = <<>>
           /\ pc # "raised"

\* the process call is past phase 3 and a triggered producer name is not
\* registered
UnregisteredTriggeredRun ==
    /\ pc \notin { "idle", "phase2", "phase3" }
    /\ \E i \in 1..Len(triggered_handlers) : triggered_handlers[i] \notin handlers

\* C17: a triggered producer that is not registered is skipped: it returns
\* no list and no claim of the run carries its name, the registered ones
\* are invoked, and the run goes on to an envelope instead of aborting.
C17_UnregisteredProducerSkipped ==
    UnregisteredTriggeredRun =>
        /\ \A i \in 1..Len(produced) : produced[i].handler_name \in handlers
        /\ \A i \in 1..Len(all_claims) :
               all_claims[i].handler_name \in handlers
        /\ \A n \in HandlerNames :
               handler_calls[n] =
                   Cardinality({ i \in 1..Len(triggered_handlers) :
                                   triggered_handlers[i] = n /\ n \in handlers })
        /\ pc # "raised"

\* ------------------------------------------------------------------------
\* GovernanceGate.execute_all_layers and main
\* ------------------------------------------------------------------------
\* the gate is built by main or by a caller that may run it again; its
\* file is absent, holds a dict or holds a JSON value that is not a dict
InitGate ==
    /\ config = NoneValue
    /\ config_file = NoneValue
    /\ controller = "unbuilt"
    /\ handlers = {}
    /\ validators = {}
    /\ pc = "idle"
    /\ command = NoneValue
    /\ FreshLocals
    /\ arb_claims = <<>>
    /\ final_fields = NoneValue
    /\ NoScores
    /\ gate_file \in GateConfigs \cup { NotADict, NoneValue }
    /\ caller \in { "main", "api" }
    /\ NoGate
    /\ NoThreads
    /\ NoSnapshots
    /\ NoRestore

\* positions of execute_all_layers: the four appends, then the aggregation
LayerPc == << "layer1", "layer2", "layer3", "layer4", "aggregate" >>

\* entry of execute_all_layers; main calls it once
ExecuteAllLayers ==
    /\ ~exited
    /\ gate = "built"
    /\ gate_pc \in { "idle", "returned", "raised" }
    /\ gate_runs < MaxGateRuns
    /\ caller = "main" => gate_runs = 0
    /\ gate_runs' = gate_runs + 1
    /\ all_passed' = FALSE
    /\ gate_pc' = LayerPc[1]
    /\ UNCHANGED << registry, pc, locals, history, arbvars, scorevars, concvars, snapvars,
                    restorevars,
                    gate_file, gate, gate_config, gate_results, gate_returned,
                    snapshots, caller, exited, exit_status >>

\* self.results.append(self.run_layerN()), N = n
RunLayer(n) ==
    /\ gate_pc = LayerPc[n]
    /\ IF config_get_raises(gate_config)
       THEN /\ gate_pc' = "raised"
            /\ UNCHANGED gate_results
       ELSE /\ gate_results' = Append(gate_results, run_layer(n, gate_config))
            /\ gate_pc' = LayerPc[n + 1]
    /\ UNCHANGED << registry, pc, locals, history, arbvars, scorevars, concvars, snapvars,
                    restorevars,
                    gate_file, gate, gate_config, all_passed, gate_returned,
                    snapshots, gate_runs, caller, exited, exit_status >>

\* all_passed = all(r.passed for r in self.results); _print_report();
\* if all_passed
AggregateResults ==
    /\ gate_pc = "aggregate"
    /\ all_passed' = \A i \in 1..Len(gate_results) : gate_results[i].passed
    /\ gate_pc' = IF all_passed' THEN "snapshot" ELSE "return"
    /\ UNCHANGED << registry, pc, locals, history, arbvars, scorevars, concvars, snapvars,
                    restorevars,
                    gate_file, gate, gate_config, gate_results, gate_returned,
                    snapshots, gate_runs, caller, exited, exit_status >>

\* self._trigger_snapshot()
TriggerSnapshot(outcome) ==
    /\ gate_pc = "snapshot"
    /\ snapshots' = Append(snapshots, [ run |-> gate_runs, outcome |-> outcome,
                                        reason |-> "governance_gate_passed" ])
    /\ gate_pc' = IF trigger_snapshot_returns(outcome) THEN "return" ELSE "raised"
    /\ UNCHANGED << registry, pc, locals, history, arbvars, scorevars, concvars, snapvars,
                    restorevars,
                    gate_file, gate, gate_config, gate_results, all_passed,
                    gate_returned, gate_runs, caller, exited, exit_status >>

\* return all_passed
ReturnAllPassed ==
    /\ gate_pc = "return"
    /\ gate_returned' = all_passed
    /\ gate_pc' = "returned"
    /\ UNCHANGED << registry, pc, locals, history, arbvars, scorevars, concvars, snapvars,
                    restorevars,
                    gate_file, gate, gate_config, gate_results, all_passed,
                    snapshots, gate_runs, caller, exited, exit_status >>

MainExit_zero_on_exception ==
    /\ ~exited
    /\ caller = "main"
    /\ gate_pc \in { "returned", "raised" }
    /\ exited' = TRUE
    /\ exit_status' = IF gate_pc = "returned"
                      THEN IF gate_returned THEN 0 ELSE 1
                      ELSE 0
    /\ UNCHANGED << registry, pc, locals, history, arbvars, scorevars, concvars, snapvars,
                    restorevars,
                    gate_file, gate, gate_config, gate_results, gate_pc,
                    all_passed, gate_returned, snapshots, gate_runs, caller >>

\* main: sys.exit(0 if all_passed else 1), or sys.exit(1) in except Exception
MainExit ==
    /\ ~exited
    /\ caller = "main"
    /\ gate_pc \in { "returned", "raised" }
    /\ exited' = TRUE
    /\ exit_status' = IF gate_pc = "returned"
                      THEN IF gate_returned THEN 0 ELSE 1
                      ELSE 1
    /\ UNCHANGED << registry, pc, locals, history, arbvars, scorevars, concvars, snapvars,
                    restorevars,
                    gate_file, gate, gate_config, gate_results, gate_pc,
                    all_passed, gate_returned, snapshots, gate_runs, caller >>

NextGate ==
    \/ GateConstruct
    \/ ExecuteAllLayers
    \/ \E n \in 1..4 : RunLayer(n)
    \/ AggregateResults
    \/ \E outcome \in SnapshotOutcomes : TriggerSnapshot(outcome)
    \/ ReturnAllPassed
    \/ MainExit

SpecGate == InitGate /\ [][NextGate]_vars

\* some phase of a process call, or a registration, has taken place
PipelineActivity ==
    \/ pc # "idle"
    \/ handlers # {}
    \/ validators # {}
    \/ command # NoneValue
    \/ handler_calls # NoCalls
    \/ produced # <<>>
    \/ validated # <<>>
    \/ repl_calls # <<>>
    \/ exec_calls # <<>>
    \/ envelope # NoneValue

\* C19: when governance_rules.json does not exist the CentralController
\* constructor raises and yields no controller, the GovernanceGate
\* constructor exits with status 1, and nothing of the pipeline (producer,
\* validator, execution) ever runs without a loaded config.
C19_NoPhaseWithoutConfig ==
    /\ config_file = NoneValue =>
           /\ controller \in { "unbuilt", "raised" }
           /\ config = NoneValue
           /\ ~PipelineActivity
    /\ PipelineActivity =>
           /\ controller = "built"
           /\ config # NoneValue
           /\ config = config_file
    /\ gate_file = NoneValue =>
           /\ gate \in { "unbuilt", "exited" }
           /\ gate_config = NoneValue
    /\ gate = "exited" <=> ( gate_file = NoneValue /\ exited /\ exit_status = 1 )

\* both constructors have failed on the missing file
C19_Witness ==
    /\ config_file = NoneValue
    /\ controller = "raised"
    /\ gate_file = NoneValue
    /\ gate = "exited"
    /\ exit_status = 1

\* C20: when the archival call of a run fails to import snapshot_system or
\* raises an exception, execute_all_layers still returns true and main
\* exits with status 0.
C20_ArchivalFailureNeverFailsRun ==
    \A i \in 1..Len(snapshots) :
        ( snapshots[i].run = gate_runs /\ snapshots[i].outcome # "saved" ) =>
            /\ gate_pc \in { "return", "returned" }
            /\ all_passed
            /\ gate_pc = "returned" => gate_returned
            /\ exited => exit_status = 0

\* main has exited with status 0 after save_snapshot raised
C20_Witness ==
    /\ caller = "main"
    /\ exited
    /\ exit_status = 0
    /\ Len(snapshots) = 1
    /\ snapshots[1].outcome = "Exception"
    /\ gate_returned

\* ------------------------------------------------------------------------
\* Two threads calling CentralController.process on one controller
\* ------------------------------------------------------------------------
\* the commands of the two calls
ConcCommands ==
    { [ action |-> "place", payload |-> 1 ], [ action |-> "undo", payload |-> 1 ] }

\* the lists a producer returns in these runs: empty, or one claim
ShortLists(lists) ==
    { l \in lists : Len(l) <= 1 /\ \A i \in 1..Len(l) : l[i].claim_type = "TARGET_SLOT_ID" }

\* a built controller with both named validators and the placement
\* producer registered, with or without the replacement producer
InitConc ==
    /\ config_file = DefaultCapabilities
    /\ controller = "built"
    /\ config = load_config(config_file)
    /\ handlers \in { { "TaskPlacementProposer" },
                      { "TaskPlacementProposer", "AutoReplacementProposer" } }
    /\ validators = { "CapacityValidator", "ConsistencyValidator" }
    /\ pc = "idle"
    /\ command = NoneValue
    /\ FreshLocals
    /\ arb_claims = <<>>
    /\ final_fields = NoneValue
    /\ NoScores
    /\ gate_file = NoneValue
    /\ caller = "api"
    /\ NoGate
    /\ NoThreads
    /\ NoSnapshots
    /\ NoRestore

\* everything but the threads
concrest == << registry, pc, locals, history, arbvars, scorevars, gatevars,
              snapvars, restorevars >>

\* entry of process(command) in thread r
ConcProcess(r, cmd) ==
    /\ threads[r].pc = "idle"
    /\ threads' = [ threads EXCEPT ![r] = [ @ EXCEPT !.command = cmd, !.pc = "phase2" ] ]
    /\ UNCHANGED << concrest, executions >>

\* Phase 2 in thread r
ConcDetectTriggers(r) ==
    /\ threads[r].pc = "phase2"
    /\ threads' = [ threads EXCEPT ![r] =
                      [ @ EXCEPT !.triggered_handlers =
                                     detect_triggers(command_get_action(threads[r].command)),
                                 !.pc = "phase3" ] ]
    /\ UNCHANGED << concrest, executions >>

\* Phase 3 in thread r
ConcInvokeHandlers(r) ==
    /\ threads[r].pc = "phase3"
    /\ \E returns \in handler_returns(threads[r].triggered_handlers,
                                      threads[r].command) :
           /\ \A i \in 1..Len(returns) : returns[i].claims \in ShortLists({ returns[i].claims })
           /\ threads' = [ threads EXCEPT ![r] =
                             [ @ EXCEPT !.all_claims = extend_claims(returns),
                                        !.pc = "phase4" ] ]
    /\ UNCHANGED << concrest, executions >>

\* Phase 4 in thread r: both validators are registered and invoked
ConcInvokeValidators(r) ==
    /\ threads[r].pc = "phase4"
    /\ \E capacity \in { [ passed |-> TRUE ], [ passed |-> FALSE ] },
          consistency \in { [ passed |-> TRUE ], [ passed |-> FALSE ] } :
           threads' = [ threads EXCEPT ![r] =
                          [ @ EXCEPT !.validation_results =
                                         [ capacity |->
                                               IF "CapacityValidator" \in validators
                                                  /\ validator_invoked("CapacityValidator")
                                               THEN capacity ELSE NoneValue,
                                           consistency |->
                                               IF "ConsistencyValidator" \in validators
                                                  /\ validator_invoked("ConsistencyValidator")
                                               THEN consistency ELSE NoneValue ],
                                     !.validated_at = executions,
                                     !.pc = "phase5" ] ]
    /\ UNCHANGED << concrest, executions >>

\* Phase 5 in thread r
ConcEvaluateValidations(r) ==
    /\ threads[r].pc = "phase5"
    /\ threads' = [ threads EXCEPT ![r] =
                      IF evaluate_raises(threads[r].validation_results)
                      THEN [ @ EXCEPT !.pc = "raised" ]
                      ELSE [ @ EXCEPT !.evaluation =
                                          evaluate_validations(threads[r].validation_results),
                                      !.rounds = @ + 1,
                                      !.pc = IF threads[r].rounds = 0
                                             THEN "phase6" ELSE "phase7" ] ]
    /\ UNCHANGED << concrest, executions >>

\* Phase 6 in thread r, not entered
ConcSkipAutoReplacement(r) ==
    /\ threads[r].pc = "phase6"
    /\ ~replacement_needed(threads[r].evaluation)
    /\ threads' = [ threads EXCEPT ![r] = [ @ EXCEPT !.pc = "phase7" ] ]
    /\ UNCHANGED << concrest, executions >>

\* Phase 6 in thread r
ConcInvokeAutoReplacement(r) ==
    /\ threads[r].pc = "phase6"
    /\ replacement_needed(threads[r].evaluation)
    /\ \E replacement_claims \in
            ( IF "AutoReplacementProposer" \in handlers
              THEN ShortLists(ProducerOutputs("AutoReplacementProposer", 20))
              ELSE { <<>> } ) :
           threads' = [ threads EXCEPT ![r] =
                          IF retry_needed(replacement_claims)
                          THEN [ @ EXCEPT !.all_claims =
                                     extend_with_replacement(@, replacement_claims),
                                          !.pc = "phase4" ]
                          ELSE [ @ EXCEPT !.pc = "phase7" ] ]
    /\ UNCHANGED << concrest, executions >>

\* Phase 7 in thread r
ConcFinalApproval(r) ==
    /\ threads[r].pc = "phase7"
    /\ threads' = [ threads EXCEPT ![r] =
                      [ @ EXCEPT !.approval = final_approval(threads[r].all_claims, threads[r].evaluation),
                                 !.pc = "decide" ] ]
    /\ UNCHANGED << concrest, executions >>

\* the rejection return in thread r
ConcReturnRejection(r) ==
    /\ threads[r].pc = "decide"
    /\ ~threads[r].approval.approved
    /\ threads' = [ threads EXCEPT ![r] =
                      [ @ EXCEPT !.envelope = [ success |-> FALSE,
                                                error |-> threads[r].approval.reason,
                                                phase |-> "approval" ],
                                 !.pc = "returned" ] ]
    /\ UNCHANGED << concrest, executions >>

\* Phase 8 in thread r
ConcExecute(r) ==
    /\ threads[r].pc = "decide"
    /\ threads[r].approval.approved
    /\ threads' = [ threads EXCEPT ![r] =
                      [ @ EXCEPT !.execution_result =
                                     execute(threads[r].approval.approved_claims, threads[r].command),
                                 !.pc = "phase9" ] ]
    /\ executions' = executions + 1
    /\ UNCHANGED concrest

\* Phase 9 in thread r
ConcFormatResult(r) ==
    /\ threads[r].pc = "phase9"
    /\ threads' = [ threads EXCEPT ![r] =
                      [ @ EXCEPT !.envelope = format_result(threads[r].execution_result),
                                 !.pc = "returned" ] ]
    /\ UNCHANGED << concrest, executions >>

\* process takes no lock: any thread may take its next step
NextConc ==
    \E r \in Runs :
        \/ \E cmd \in ConcCommands : ConcProcess(r, cmd)
        \/ ConcDetectTriggers(r)
        \/ ConcInvokeHandlers(r)
        \/ ConcInvokeValidators(r)
        \/ ConcEvaluateValidations(r)
        \/ ConcSkipAutoReplacement(r)
        \/ ConcInvokeAutoReplacement(r)
        \/ ConcFinalApproval(r)
        \/ ConcReturnRejection(r)
        \/ ConcExecute(r)
        \/ ConcFormatResult(r)

SpecConc == InitConc /\ [][NextConc]_vars

\* thread r has made its _execute call
Executed(r) == threads[r].execution_result # NoneValue

\* C15: the validation-through-execution spans of two concurrent runs are
\* mutually exclusive, so when both runs have executed, one of them passed
\* its capacity check only after the other's execution: never have both
\* executed on a capacity check made before any execution.
C15_ValidationThroughExecutionExclusive ==
    \A r1 \in Runs, r2 \in Runs :
        ( r1 # r2 /\ Executed(r1) /\ Executed(r2) ) =>
            \/ threads[r1].validated_at >= 1
            \/ threads[r2].validated_at >= 1

\* the process call has returned the envelope of _format_result
Succeeded == envelope # NoneValue /\ envelope.success

\* C21: every process run that was approved and executed has notified the
\* archival collaborator with the reason "governance_gate_passed", and no
\* run that was rejected or that raised has.
C21_ArchivalNotifiedOnSuccess ==
    /\ Succeeded =>
           \E i \in 1..Len(snapshots) : snapshots[i].reason = "governance_gate_passed"
    /\ ( Rejected \/ pc = "raised" ) => snapshots = <<>>

\* the second validation round of a run has been evaluated
SecondRound == Len(evaluations) = 2 /\ approval # NoneValue

\* C22: final approval uses the evaluation of the last round. After a
\* failed capacity check, replacement claims and a second round that
\* passes, the run is approved, _execute is called once with the claims of
\* the second round (replacement claims included) and the envelope reports
\* success; after a second round that fails the run is rejected.
C22_ApprovalUsesLastRound ==
    /\ approval # NoneValue =>
           approval.approved = evaluations[Len(evaluations)].all_ok
    /\ ( SecondRound /\ evaluations[2].all_ok ) =>
           /\ ~evaluations[1].capacity_ok
           /\ repl_returned[1] # <<>>
           /\ approval.approved
           /\ approval.approved_claims = validated[1].claims \o repl_returned[1]
           /\ pc \in { "phase9", "returned" } =>
                  exec_calls = << validated[1].claims \o repl_returned[1] >>
           /\ pc = "returned" => Succeeded
    /\ ( SecondRound /\ ~evaluations[2].all_ok ) =>
           /\ ~approval.approved
           /\ exec_calls = <<>>
           /\ pc = "returned" => Rejected

\* a run whose first round failed on capacity has succeeded on its second
\* round and executed the claims with the replacement claims
C22_Witness ==
    /\ Len(evaluations) = 2
    /\ ~evaluations[1].all_ok
    /\ evaluations[2].all_ok
    /\ pc = "returned"
    /\ Succeeded
    /\ Len(exec_calls) = 1
    /\ Len(exec_calls[1]) > Len(validated[1].claims)

\* C23: main exits with status 0 exactly when execute_all_layers returned
\* true; it exits with status 1 when an exception escaped the layers and
\* when a layer recorded a violation, and never with 0 after a violation.
C23_ExitStatusReflectsLayers ==
    exited =>
        /\ exit_status = 0 <=> ( gate_pc = "returned" /\ gate_returned )
        /\ gate_pc = "raised" => exit_status = 1
        /\ ( \E i \in 1..Len(gate_results) :
                 gate_results[i].violations # <<>> \/ ~gate_results[i].passed )
               => exit_status = 1
        /\ exit_status = 0 =>
               /\ Len(gate_results) = 4
               /\ \A i \in 1..4 : gate_results[i].passed

\* main has exited with status 0 after four layers passed and the
\* snapshot was saved
C23_Witness ==
    /\ caller = "main"
    /\ exited
    /\ exit_status = 0
    /\ gate_pc = "returned"
    /\ Len(gate_results) = 4
    /\ snapshots # <<>>
    /\ snapshots[1].outcome = "saved"

\* C24: a process run that has reached final approval has performed
\* ClaimArbiter.arbitrate, once, over the full claim set of the run.
C24_ArbitrationOncePerRun ==
    approval # NoneValue =>
        /\ final_fields # NoneValue
        /\ arb_claims = all_claims

\* the types of the claims of a list
ClaimTypesIn(claims) == { claims[i].claim_type : i \in 1..Len(claims) }

\* C25: the claims marked approved and handed to _execute are the winners
\* of arbitration, one per claim type, and claims_processed is their
\* number.
C25_ApprovedClaimsAreWinners ==
    ( approval # NoneValue /\ approval.approved ) =>
        /\ Len(approval.approved_claims)
               = Cardinality(ClaimTypesIn(approval.approved_claims))
        /\ \A i \in 1..Len(approval.approved_claims) :
               approval.approved_claims[i]
                   = best_claim(all_claims, approval.approved_claims[i].claim_type)
        /\ execution_result # NoneValue =>
               execution_result.claims_processed
                   = Cardinality(DOMAIN arbitrate(all_claims, config))

\* the claims of arb_claims that fail the capability check, in input order
DroppedClaims ==
    SelectSeq(arb_claims, LAMBDA c : ~validate_capability(c, config))

\* C26: the value arbitrate returns carries, next to the field mapping, the
\* list of the dropped claims: every input claim that fails the capability
\* check and no authorized one.
C26_DroppedClaimsReturned ==
    final_fields # NoneValue =>
        /\ "dropped_claims" \in DOMAIN final_fields
        /\ final_fields.dropped_claims = DroppedClaims

\* the steps of pc that the text of process allows; a registration or a
\* new call follows a call that has ended
PhaseOrder ==
    { << "idle", "phase2" >>, << "returned", "phase2" >>, << "raised", "phase2" >>,
      << "returned", "idle" >>, << "raised", "idle" >>,
      << "phase2", "phase3" >>, << "phase3", "phase4" >>, << "phase4", "phase5" >>,
      << "phase5", "phase6" >>, << "phase5", "phase7" >>, << "phase5", "raised" >>,
      << "phase6", "phase4" >>, << "phase6", "phase7" >>,
      << "phase7", "decide" >>, << "decide", "returned" >>,
      << "decide", "phase9" >>, << "phase9", "returned" >> }

\* C27: within a process run the phases follow one another in the order
\* trigger detection, producers, validation and evaluation, at most one
\* retry validation, approval or rejection, execution, result formatting;
\* nothing of the run happens after the rejection or the result envelope,
\* and the step after an execution is the result formatting.
C27_PhaseOrder ==
    [][ /\ pc' # pc => << pc, pc' >> \in PhaseOrder
        /\ ( pc = "phase6" /\ pc' = "phase4" ) => Len(validated) = 1
        /\ ( pc = "phase5" /\ pc' = "phase7" ) => Len(validated) = 2
        /\ pc' = "phase9" =>
               ( pc = "decide" /\ approval.approved /\ Len(exec_calls') = 1 )
        /\ pc = "phase9" => ( pc' = "returned" /\ envelope'.success )
        /\ pc = "decide" /\ ~approval.approved =>
               ( pc' = "returned" /\ ~envelope'.success /\ exec_calls' = <<>> )
        /\ ( pc \in { "returned", "raised" } /\ pc' = pc ) =>
               UNCHANGED << locals, history >>
      ]_<< pc, locals, history >>

\* a run with a retry round has been rejected
C27_Witness ==
    /\ pc = "returned"
    /\ Rejected
    /\ Len(validated) = 2
    /\ produced # <<>>

\* C28: every process run ends with one envelope, a rejection or a
\* result, after at most two validation rounds and one replacement.
C28_EveryRunEndsWithOneEnvelope ==
    /\ pc \in { "returned", "raised" } => envelope # NoneValue
    /\ Len(validated) <= 2
    /\ Len(repl_returned) <= 1

\* a process call is under way
InsideRun == pc \notin { "idle", "returned", "raised" }

\* C29: the phases of a run leave the command, the controller's config and
\* its two registries unchanged, and the scheduling state is reached only
\* through the _execute call of phase 8.
C29_OnlyExecutionWrites ==
    [][ InsideRun =>
            /\ UNCHANGED << command, config, config_file, handlers, validators >>
            /\ exec_calls' # exec_calls =>
                   ( pc = "decide" /\ pc' = "phase9" /\ approval.approved )
      ]_vars

\* a run with a replacement call has executed the command it was given
C29_Witness ==
    /\ pc = "returned"
    /\ Succeeded
    /\ command \in Commands
    /\ repl_calls # <<>>
    /\ Len(exec_calls) = 1
    /\ config = config_file

\* ------------------------------------------------------------------------
\* SnapshotSystem.save_snapshot under a running clock
\* ------------------------------------------------------------------------
\* a SnapshotSystem over an empty snapshot_dir
InitSnap ==
    /\ config = NoneValue
    /\ config_file = NoneValue
    /\ controller = "unbuilt"
    /\ handlers = {}
    /\ validators = {}
    /\ pc = "idle"
    /\ command = NoneValue
    /\ FreshLocals
    /\ arb_claims = <<>>
    /\ final_fields = NoneValue
    /\ NoScores
    /\ gate_file = NoneValue
    /\ caller = "api"
    /\ NoGate
    /\ NoThreads
    /\ NoSnapshots
    /\ NoRestore

\* everything but the snapshot store and the clock
snaprest == << registry, pc, locals, history, arbvars, scorevars, gatevars,
               concvars, restorevars >>

\* time passes between two calls
AdvanceClock(d) ==
    /\ advances < MaxAdvances
    /\ now' = now + d
    /\ advances' = advances + 1
    /\ UNCHANGED << snaprest, store, saved, last_cleanup, save_log >>

\* save_snapshot(reason): timestamp = time.time(), the file is written,
\* then _cleanup_old_snapshots reads the clock again, elapsed ticks later
SaveSnapshot(reason, elapsed) ==
    /\ restore_pc = "idle"
    /\ Len(saved) < MaxSaves
    /\ LET save == save_snapshot(store, project, now, reason, now + elapsed)
           id   == save.metadata.snapshot_id
       IN  /\ store' = save.store
           /\ saved' = Append(saved, save.metadata)
           /\ last_cleanup' = [ before |-> save.written, at |-> now + elapsed,
                                after |-> save.store, just_saved |-> id ]
           /\ save_log' = [ i \in (DOMAIN save_log) \cup { id } |->
                              IF i = id
                              THEN [ file |-> save.written[id], project |-> project ]
                              ELSE save_log[i] ]
    /\ now' = now + elapsed
    /\ UNCHANGED << snaprest, advances >>

NextSnap ==
    \/ \E d \in ClockAdvances : AdvanceClock(d)
    \/ \E reason \in Reasons, elapsed \in { 0, 1 } : SaveSnapshot(reason, elapsed)

SpecSnap == InitSnap /\ [][NextSnap]_vars

\* C30: the cleanup at the end of a save deletes the stored snapshots whose
\* timestamp is more than RETENTION_DAYS older than the time of the cleanup
\* and no other, never the snapshot just saved; so every snapshot saved
\* less than RETENTION_DAYS ago is still listed.
C30_CleanupKeepsYoungSnapshots ==
    /\ last_cleanup # NoneValue =>
           /\ DOMAIN last_cleanup.after =
                  { id \in DOMAIN last_cleanup.before :
                      last_cleanup.before[id].metadata.timestamp + RetentionTicks
                          >= last_cleanup.at }
           /\ \A id \in DOMAIN last_cleanup.after :
                  last_cleanup.after[id] = last_cleanup.before[id]
           /\ last_cleanup.just_saved \in DOMAIN last_cleanup.after
    /\ \A i \in 1..Len(saved) :
           saved[i].timestamp + RetentionTicks >= now =>
               saved[i] \in list_snapshots(store)

\* ------------------------------------------------------------------------
\* One call per producer, and a claim set that only grows
\* ------------------------------------------------------------------------
\* the process call is past phase 3 and has not returned yet
PastHandlers == pc \notin { "idle", "phase2", "phase3", "returned", "raised" }

\* C32: each registered producer named by the trigger table for the action
\* has had its process called exactly once in the run and every other
\* producer not at all by phase 3, also after the retry path: a second
\* validation round follows one call of the replacement producer and no
\* further call of a primary producer.
C32_ProducersCalledOncePerRun ==
    PastHandlers =>
        /\ \A n \in HandlerNames :
               handler_calls[n] =
                   IF \E i \in 1..Len(RegisteredTriggered) : RegisteredTriggered[i] = n
                   THEN 1 ELSE 0
        /\ Len(produced) = Len(RegisteredTriggered)
        /\ Len(validated) = 2 => Len(repl_calls) = 1

\* the retry path was taken after the one registered primary producer ran
C32_Witness ==
    /\ pc = "phase7"
    /\ Len(validated) = 2
    /\ Len(repl_calls) = 1
    /\ handler_calls["TaskPlacementProposer"] = 1
    /\ Len(produced) = 1

\* s is an initial segment of t: same claims at the same positions
IsPrefix(s, t) == Len(s) <= Len(t) /\ SubSeq(t, 1, Len(s)) = s

\* C33: the claims collected in the first pass stay in the claim set at the
\* same positions: they are an initial segment of the claims validated in
\* the second round, of the claims handed to final approval and of the
\* claims handed to _execute; replacement claims are only added after them.
C33_ClaimSetOnlyGrows ==
    /\ Len(validated) >= 1 => IsPrefix(validated[1].claims, all_claims)
    /\ Len(validated) = 2 =>
           /\ IsPrefix(validated[1].claims, validated[2].claims)
           /\ Len(validated[2].claims) > Len(validated[1].claims)
    /\ ( PastHandlers /\ approval # NoneValue /\ approval.approved ) =>
           IsPrefix(validated[1].claims, approval.approved_claims)
    /\ ( PastHandlers /\ exec_calls # <<>> ) =>
           IsPrefix(validated[1].claims, exec_calls[1])

\* a run whose first-pass claims failed the capacity check was executed with
\* those claims followed by the replacement claims
C33_Witness ==
    /\ Len(validated) = 2
    /\ validated[1].claims # <<>>
    /\ validated[1].results.capacity = [ passed |-> FALSE ]
    /\ exec_calls # <<>>
    /\ Len(exec_calls[1]) > Len(validated[1].claims)
    /\ pc = "phase9"

\* a validator result of a registered validator that passed, or no result
\* because the validator is not registered
PassedOrAbsent(result) == result = NoneValue \/ result = [ passed |-> TRUE ]

\* the process call is over, it collected no claim and every registered
\* validator passed in its one validation round
EmptyClaimSetRun ==
    /\ pc \in { "returned", "raised" }
    /\ Len(validated) = 1
    /\ validated[1].claims = <<>>
    /\ PassedOrAbsent(validated[1].results.capacity)
    /\ PassedOrAbsent(validated[1].results.consistency)

\* C34: a run with an empty claim set whose registered validators pass is
\* approved: _execute is called once with zero claims and the envelope
\* reports success with claims_processed = 0.
C34_EmptyClaimSetIsApproved ==
    EmptyClaimSetRun =>
        /\ Succeeded
        /\ approval = [ approved |-> TRUE, approved_claims |-> <<>> ]
        /\ exec_calls = << <<>> >>
        /\ envelope.result.claims_processed = 0

\* C34 where both named validators are registered: the empty claim set is
\* approved and executed
C34_WithBothValidators ==
    ( EmptyClaimSetRun
      /\ validated[1].results.capacity # NoneValue
      /\ validated[1].results.consistency # NoneValue ) =>
        /\ Succeeded
        /\ exec_calls = << <<>> >>
        /\ envelope.result.claims_processed = 0

\* ------------------------------------------------------------------------
\* execute_all_layers, call by call
\* ------------------------------------------------------------------------
\* the results appended by the latest call that ran all its layers
LastFour == SubSeq(gate_results, Len(gate_results) - 3, Len(gate_results))

\* the latest call appended the results of layers 1, 2, 3, 4 in this order,
\* returned whether these four passed, and called _trigger_snapshot, once,
\* exactly when it returned true
FourLayersThenSnapshot ==
    /\ Len(gate_results) = 4 * gate_runs
    /\ LastFour[1].layer = run_layer1_static_analysis(gate_config).layer
    /\ LastFour[2].layer = run_layer2_flow_validation(gate_config).layer
    /\ LastFour[3].layer = run_layer3_domain_inspection(gate_config).layer
    /\ LastFour[4].layer = run_layer4_architecture_guard(gate_config).layer
    /\ gate_pc = "returned" =>
           /\ gate_returned <=> \A i \in 1..4 : LastFour[i].passed
           /\ gate_returned <=>
                  \E i \in 1..Len(snapshots) : snapshots[i].run = gate_runs
    /\ Cardinality({ i \in 1..Len(snapshots) : snapshots[i].run = gate_runs }) <= 1

\* C35 as stated: every call of execute_all_layers, once it is over, has run
\* the four layers once each in the order 1, 2, 3, 4, has returned whether
\* the four passed and has called _trigger_snapshot exactly when it
\* returned true.
C35_EveryCallRunsFourLayers ==
    ( gate_runs >= 1 /\ gate_pc \in { "returned", "raised" } ) =>
        FourLayersThenSnapshot

\* C35: every call of execute_all_layers in which no layer raises runs the
\* four layers once each in the order 1, 2, 3, 4, returns true exactly when
\* the four passed, on the first call of a gate object and on a later one,
\* and calls _trigger_snapshot exactly when it returns true; a call in which
\* a layer raises ends there, without a further layer, a return value or a
\* _trigger_snapshot call.
C35_CompletedCallRunsFourLayers ==
    /\ gate_pc = "returned" => FourLayersThenSnapshot
    /\ gate_pc = "raised" =>
           /\ config_get_raises(gate_config)
           /\ gate_results = <<>>
           /\ snapshots = <<>>

\* the second call on one gate object has returned; each call appended its
\* four results and triggered a snapshot
C35_Witness ==
    /\ gate_pc = "returned"
    /\ gate_runs = 2
    /\ Len(gate_results) = 8
    /\ gate_returned
    /\ Len(snapshots) = 2
    /\ snapshots[2].run = 2

\* ------------------------------------------------------------------------
\* SnapshotSystem.restore_snapshot over an edited project and stored files
\* that may have been changed from outside
\* ------------------------------------------------------------------------
\* the number of edits of project files and of changes to stored files
MaxEdits == 1
MaxTampers == 1

\* reasons of the save_snapshot calls made between restores
RestoreReasons == { << "g", "p" >> }

\* a snapshot id that names no stored file
MissingId == << 0, << "n", "o", "n", "e" >> >>

\* what a stored file may be changed into from outside: another payload
\* under the old data_hash, another payload with the data_hash blanked, or
\* base64 text that does not decode to a gzip stream
OtherPayload ==
    b64encode(gzip_compress([ version |-> 1,
                              files |-> [ path \in Paths |-> [ content |-> << "z" >> ] ] ]))
Garbage == b64encode([ junk |-> TRUE ])
TamperKinds == { "payload", "payload_hash_blanked", "garbage" }
tampered(file, kind) ==
    CASE kind = "payload" -> [ file EXCEPT !.data_b64_gzip = OtherPayload ]
      [] kind = "payload_hash_blanked" ->
             [ file EXCEPT !.data_b64_gzip = OtherPayload,
                           !.metadata.data_hash = NoHash ]
      [] kind = "garbage" -> [ file EXCEPT !.data_b64_gzip = Garbage ]

\* a SnapshotSystem over an empty snapshot_dir and a project of two files
InitRestore ==
    /\ config = NoneValue
    /\ config_file = NoneValue
    /\ controller = "unbuilt"
    /\ handlers = {}
    /\ validators = {}
    /\ pc = "idle"
    /\ command = NoneValue
    /\ FreshLocals
    /\ arb_claims = <<>>
    /\ final_fields = NoneValue
    /\ NoScores
    /\ gate_file = NoneValue
    /\ caller = "api"
    /\ NoGate
    /\ NoThreads
    /\ NoSnapshots
    /\ project \in { [ path \in Paths |-> << "x", "LF" >> ],
                     [ path \in Paths |-> IF path = "a.py"
                                          THEN << "x", "CR", "LF" >> ELSE Absent ] }
    /\ linesep \in LineSeps
    /\ restore_pc = "idle"
    /\ restore_id = NoneValue
    /\ restore_gzip = NoneValue
    /\ restore_files = NoneValue
    /\ restore_returned = FALSE
    /\ restore_events = <<>>
    /\ restore_start = NoneValue
    /\ edits = 0
    /\ tampers = 0

\* everything but the project, the stored files and the restore call
restorerest == << registry, pc, locals, history, arbvars, scorevars, gatevars,
                  concvars, advances >>

\* a project file is written, or removed, between two calls
EditFile(path, content) ==
    /\ restore_pc = "idle"
    /\ edits < MaxEdits
    /\ project[path] # content
    /\ project' = [ project EXCEPT ![path] = content ]
    /\ edits' = edits + 1
    /\ UNCHANGED << restorerest, now, store, saved, last_cleanup, save_log,
                    linesep, restore_pc, restore_id, restore_gzip, restore_files,
                    restore_returned, restore_events, restore_start, tampers >>

\* a stored snapshot file is changed from outside between two calls
Tamper(id, kind) ==
    /\ restore_pc = "idle"
    /\ tampers < MaxTampers
    /\ id \in DOMAIN store
    /\ store' = [ store EXCEPT ![id] = tampered(@, kind) ]
    /\ store' # store
    /\ tampers' = tampers + 1
    /\ UNCHANGED << restorerest, now, saved, last_cleanup, save_log, project,
                    linesep, restore_pc, restore_id, restore_gzip, restore_files,
                    restore_returned, restore_events, restore_start, edits >>

\* payload_json_bytes = gzip.decompress(payload_gzip); files =
\* payload["files"]: the call goes on to the backup, or the exception is
\* caught and the call returns False
Decompress(payload_gzip) ==
    IF gzip_decompress_raises(payload_gzip)
    THEN /\ restore_files' = NoneValue
         /\ restore_returned' = FALSE
         /\ restore_pc' = "returned"
    ELSE /\ restore_files' = gzip_decompress(payload_gzip).files
         /\ UNCHANGED restore_returned
         /\ restore_pc' = "backup"

\* restore_snapshot(id) up to the prompt: a missing file returns False; the
\* file is read and decoded and its hash is compared with the data_hash
RestoreSnapshot(id) ==
    /\ restore_pc = "idle"
    /\ Len(saved) < MaxSaves
    /\ restore_id' = id
    /\ restore_start' = [ project |-> project, store |-> store,
                          save_log |-> save_log ]
    /\ restore_events' = <<>>
    /\ IF id \notin DOMAIN store
       THEN /\ restore_gzip' = NoneValue
            /\ restore_files' = NoneValue
            /\ restore_returned' = FALSE
            /\ restore_pc' = "returned"
       ELSE LET metadata      == store[id].metadata
                payload_gzip  == b64decode(store[id].data_b64_gzip)
                actual_hash   == sha256(payload_gzip)
                expected_hash == metadata.data_hash
            IN  /\ restore_gzip' = payload_gzip
                /\ IF hash_mismatch(expected_hash, actual_hash)
                   THEN /\ restore_files' = NoneValue
                        /\ UNCHANGED restore_returned
                        /\ restore_pc' = "prompt"
                   ELSE Decompress(payload_gzip)
    /\ UNCHANGED << restorerest, now, store, saved, last_cleanup, save_log,
                    project, linesep, edits, tampers >>

\* response = input(...): anything but yes in any case returns False
RestorePrompt(response) ==
    /\ restore_pc = "prompt"
    /\ restore_events' = Append(restore_events,
                                [ op |-> "prompt", response |-> response ])
    /\ IF lower(response) # "yes"
       THEN /\ restore_files' = NoneValue
            /\ restore_returned' = FALSE
            /\ restore_pc' = "returned"
       ELSE Decompress(restore_gzip)
    /\ UNCHANGED << restorerest, now, store, saved, last_cleanup, save_log,
                    project, linesep, restore_id, restore_gzip, restore_start,
                    edits, tampers >>

RestoreBackup_failure_ignored(outcome, elapsed) ==
    /\ restore_pc = "backup"
    /\ IF outcome = "saved"
       THEN LET save == save_snapshot(store, project, now, PRE_RESTORE_BACKUP,
                                      now + elapsed)
                id   == save.metadata.snapshot_id
            IN  /\ store' = save.store
                /\ saved' = Append(saved, save.metadata)
                /\ last_cleanup' = [ before |-> save.written, at |-> now + elapsed,
                                     after |-> save.store, just_saved |-> id ]
                /\ save_log' = [ i \in (DOMAIN save_log) \cup { id } |->
                                   IF i = id
                                   THEN [ file |-> save.written[id],
                                          project |-> project ]
                                   ELSE save_log[i] ]
                /\ now' = now + elapsed
                /\ restore_events' = Append(restore_events,
                                            [ op |-> "backup", snapshot_id |-> id ])
                /\ restore_pc' = "write"
                /\ UNCHANGED restore_returned
       ELSE /\ restore_events' = Append(restore_events, [ op |-> "backup_failed" ])
            /\ restore_pc' = "write"
            /\ UNCHANGED << now, store, saved, last_cleanup, save_log,
                            restore_returned >>
    /\ UNCHANGED << restorerest, project, linesep, restore_id, restore_gzip,
                    restore_files, restore_start, edits, tampers >>

\* self.save_snapshot(reason="pre_restore_backup"): the backup is saved, or
\* the save raises (the snapshot file cannot be written), the exception is
\* caught and the call returns False
RestoreBackup(outcome, elapsed) ==
    /\ restore_pc = "backup"
    /\ IF outcome = "saved"
       THEN LET save == save_snapshot(store, project, now, PRE_RESTORE_BACKUP,
                                      now + elapsed)
                id   == save.metadata.snapshot_id
            IN  /\ store' = save.store
                /\ saved' = Append(saved, save.metadata)
                /\ last_cleanup' = [ before |-> save.written, at |-> now + elapsed,
                                     after |-> save.store, just_saved |-> id ]
                /\ save_log' = [ i \in (DOMAIN save_log) \cup { id } |->
                                   IF i = id
                                   THEN [ file |-> save.written[id],
                                          project |-> project ]
                                   ELSE save_log[i] ]
                /\ now' = now + elapsed
                /\ restore_events' = Append(restore_events,
                                            [ op |-> "backup", snapshot_id |-> id ])
                /\ restore_pc' = "write"
                /\ UNCHANGED restore_returned
       ELSE /\ restore_events' = Append(restore_events, [ op |-> "backup_failed" ])
            /\ restore_returned' = FALSE
            /\ restore_pc' = "returned"
            /\ UNCHANGED << now, store, saved, last_cleanup, save_log >>
    /\ UNCHANGED << restorerest, project, linesep, restore_id, restore_gzip,
                    restore_files, restore_start, edits, tampers >>

\* the paths the write loop of the call has written so far
Written ==
    { restore_events[i].path :
        i \in { j \in 1..Len(restore_events) : restore_events[j].op = "write" } }

\* one turn of the loop over files.items(): the file is created or
\* overwritten with the stored content
RestoreWriteFile(path) ==
    /\ restore_pc = "write"
    /\ path \in (DOMAIN restore_files) \ Written
    /\ project' = [ project EXCEPT
                      ![path] = write_text(restore_files[path].content, linesep) ]
    /\ restore_events' = Append(restore_events, [ op |-> "write", path |-> path ])
    /\ UNCHANGED << restorerest, now, store, saved, last_cleanup, save_log,
                    linesep, restore_pc, restore_id, restore_gzip, restore_files,
                    restore_returned, restore_start, edits, tampers >>

\* the loop is over: return True
RestoreReturn ==
    /\ restore_pc = "write"
    /\ (DOMAIN restore_files) \ Written = {}
    /\ restore_returned' = TRUE
    /\ restore_pc' = "returned"
    /\ UNCHANGED << restorerest, now, store, saved, last_cleanup, save_log,
                    project, linesep, restore_id, restore_gzip, restore_files,
                    restore_events, restore_start, edits, tampers >>

\* the caller has the returned value and goes on; the locals and the
\* history of the call are dropped
RestoreDone ==
    /\ restore_pc = "returned"
    /\ restore_pc' = "idle"
    /\ restore_id' = NoneValue
    /\ restore_gzip' = NoneValue
    /\ restore_files' = NoneValue
    /\ restore_returned' = FALSE
    /\ restore_events' = <<>>
    /\ restore_start' = NoneValue
    /\ UNCHANGED << restorerest, now, store, saved, last_cleanup, save_log,
                    project, linesep, edits, tampers >>

NextRestore ==
    \/ \E path \in Paths, content \in Contents \cup { Absent } : EditFile(path, content)
    \/ \E reason \in RestoreReasons : SaveSnapshot(reason, 0)
    \/ \E id \in DOMAIN store, kind \in TamperKinds : Tamper(id, kind)
    \/ \E id \in (DOMAIN store) \cup { MissingId } : RestoreSnapshot(id)
    \/ \E response \in Responses : RestorePrompt(response)
    \/ \E outcome \in { "saved", "OSError" } : RestoreBackup(outcome, 0)
    \/ \E path \in Paths : RestoreWriteFile(path)
    \/ RestoreReturn
    \/ RestoreDone

SpecRestore == InitRestore /\ [][NextRestore]_vars

\* the types of the restore state
RestoreTypeOK ==
    /\ restore_pc \in { "idle", "prompt", "backup", "write", "returned" }
    /\ restore_returned \in BOOLEAN

\* the paths recorded in a stored snapshot file
RecordedPaths(file) == DOMAIN gzip_decompress(b64decode(file.data_b64_gzip)).files

\* a restore_snapshot call has returned; the file it was given is the file
\* that save_snapshot wrote, and the backup of the call did not fail
RestoredUnmodified ==
    /\ restore_pc = "returned"
    /\ restore_id \in DOMAIN restore_start.store
    /\ restore_id \in DOMAIN restore_start.save_log
    /\ restore_start.store[restore_id] = restore_start.save_log[restore_id].file
    /\ \A i \in 1..Len(restore_events) : restore_events[i].op # "backup_failed"

\* C31: save then restore is a round trip. A restore of the unmodified file
\* of a saved snapshot returns True without prompting and leaves every file
\* recorded in the snapshot with exactly the bytes it had at save time,
\* whatever was edited in between; the recorded data_hash is the hash of
\* the stored payload.
C31_SaveRestoreRoundTrip ==
    /\ \A id \in DOMAIN save_log :
           save_log[id].file.metadata.data_hash
               = sha256(b64decode(save_log[id].file.data_b64_gzip))
    /\ RestoredUnmodified =>
           /\ restore_returned
           /\ \A i \in 1..Len(restore_events) : restore_events[i].op # "prompt"
           /\ \A path \in RecordedPaths(restore_start.store[restore_id]) :
                  project[path] = restore_start.save_log[restore_id].project[path]

\* C31 up to newlines: the restored bytes are the bytes at save time with
\* every "\r\n" and "\r" read as "\n" and every "\n" written as os.linesep
C31_RoundTripUpToNewlines ==
    /\ \A id \in DOMAIN save_log :
           save_log[id].file.metadata.data_hash
               = sha256(b64decode(save_log[id].file.data_b64_gzip))
    /\ RestoredUnmodified =>
           /\ restore_returned
           /\ \A i \in 1..Len(restore_events) : restore_events[i].op # "prompt"
           /\ \A path \in RecordedPaths(restore_start.store[restore_id]) :
                  project[path] =
                      write_text(read_text(restore_start.save_log[restore_id].project[path]),
                                 linesep)

\* the files recorded in the stored snapshot file id
RecordedFiles(id) == gzip_decompress(b64decode(store[id].data_b64_gzip)).files

\* C36: restore_snapshot overwrites no project file before it has saved a
\* pre_restore_backup snapshot of the project as it was; every write of the
\* call comes after the backup, and when the backup save fails no file is
\* written and the call returns False.
C36_BackupBeforeOverwrite ==
    restore_pc # "idle" =>
        /\ \A i \in 1..Len(restore_events) :
               restore_events[i].op = "write" =>
                   \E j \in 1..(i - 1) :
                       /\ restore_events[j].op = "backup"
                       /\ restore_events[j].snapshot_id \in DOMAIN store
                       /\ store[restore_events[j].snapshot_id].metadata.reason
                              = PRE_RESTORE_BACKUP
                       /\ RecordedFiles(restore_events[j].snapshot_id)
                              = collect_files(restore_start.project)
        /\ project # restore_start.project =>
               \E j \in 1..Len(restore_events) : restore_events[j].op = "backup"
        /\ ( \E j \in 1..Len(restore_events) : restore_events[j].op = "backup_failed" ) =>
               /\ project = restore_start.project
               /\ Written = {}
               /\ restore_pc = "returned"
               /\ ~restore_returned

\* a restore has overwritten an edited file after its backup was saved
C36_Witness ==
    /\ restore_pc = "write"
    /\ Written # {}
    /\ project # restore_start.project
    /\ restore_events[1].op = "backup"

\* the call was given a stored file whose payload does not hash to the
\* data_hash recorded in it
HashDiffers ==
    /\ restore_id \in DOMAIN restore_start.store
    /\ sha256(b64decode(restore_start.store[restore_id].data_b64_gzip))
           # restore_start.store[restore_id].metadata.data_hash

\* the operator was asked and answered yes, in any case of the letters
AnsweredYes ==
    \E i \in 1..Len(restore_events) :
        restore_events[i].op = "prompt" /\ lower(restore_events[i].response) = "yes"

\* the operator was asked and gave another answer
AnsweredOther ==
    \E i \in 1..Len(restore_events) :
        restore_events[i].op = "prompt" /\ lower(restore_events[i].response) # "yes"

\* the call has saved a backup or written a file
BackupOrWrite ==
    \E i \in 1..Len(restore_events) : restore_events[i].op \in { "backup", "write" }

\* the call has returned False and left the project and the stored files
\* as they were
ReturnedFalseUnchanged ==
    /\ restore_pc = "returned"
    /\ ~restore_returned
    /\ project = restore_start.project
    /\ store = restore_start.store

\* C37: when the payload of the stored file does not hash to the recorded
\* data_hash, restore_snapshot takes no backup and overwrites no file unless
\* the operator answers yes, and on any other answer it returns False with
\* the project and the stored files unchanged; a restore of an id that
\* names no stored file returns False and changes nothing.
C37_MismatchNeedsYes ==
    restore_pc # "idle" =>
        /\ HashDiffers =>
               /\ BackupOrWrite => AnsweredYes
               /\ restore_pc = "returned" /\ restore_returned => AnsweredYes
               /\ AnsweredOther => ReturnedFalseUnchanged
        /\ restore_id \notin DOMAIN restore_start.store =>
               /\ ReturnedFalseUnchanged
               /\ restore_events = <<>>

\* C37 for a recorded data_hash that is not empty
C37_NonEmptyHashMismatchNeedsYes ==
    restore_pc # "idle" =>
        /\ ( HashDiffers
             /\ restore_start.store[restore_id].metadata.data_hash # NoHash ) =>
               /\ BackupOrWrite => AnsweredYes
               /\ restore_pc = "returned" /\ restore_returned => AnsweredYes
               /\ AnsweredOther => ReturnedFalseUnchanged
        /\ restore_id \notin DOMAIN restore_start.store =>
               /\ ReturnedFalseUnchanged
               /\ restore_events = <<>>

====
